---- MODULE Spec2Model ----
(***************************************************************************)
(* A model of mixrand (sonoransun/entropy-svc): the source selector, the   *)
(* fallback compositor, the daemon control loop with its kernel pool-info  *)
(* record, and the check orchestrator.                                     *)
(*                                                                         *)
(* Byte buffers whose content does not decide control flow are modelled by *)
(* their length.  Machine integers wider than 31 bits are modelled as      *)
(* little-endian sequences of base-256 digits, so that casts, wrap-around  *)
(* and to_ne_bytes keep their true width.                                  *)
(***************************************************************************)
EXTENDS Integers, Sequences, FiniteSets, TLC

\* ------------------------------------------------------------------ bounds

\* Largest byte count requested from the selector.
MaxCount == 2
\* Largest oversample factor of the configurations explored (code range 1..16).
MaxOversample == 2
\* The non-zero fallback_mix_bytes value explored (code range 0..1024).
MixBytes == 4
\* Length of a successful procfs read.
ProcLen == 3

\* ------------------------------------------------------------- error kinds

NoError == "none"
ErrIo == "Io"
ErrNoEntropy == "NoEntropy"
ErrInvalidArgs == "InvalidArgs"

\* A Result<Vec<u8>, Error>: the bytes are modelled by their length.
Ok(n) == [ok |-> TRUE, len |-> n, err |-> NoError]
Err(kind) == [ok |-> FALSE, len |-> 0, err |-> kind]

\* ------------------------------------------------------- CPU RNG (cpurng.rs)

Rdseed == "RDSEED"
Rdrand == "RDRAND"
Xstore == "XSTORE"
Instr == {Rdseed, Rdrand, Xstore}

\* CpuRngConfig after validate: the fields the selector and compositor read.
CpuRngConfigs ==
    [prefer : Instr,
     enable_rdseed : BOOLEAN, enable_rdrand : BOOLEAN, enable_xstore : BOOLEAN,
     oversample : 1..MaxOversample,
     fallback_mix_bytes : {0, MixBytes}]

\* CpuRngConfig::default().
DefaultConfig ==
    [prefer |-> Rdseed, enable_rdseed |-> TRUE, enable_rdrand |-> TRUE,
     enable_xstore |-> TRUE, rdrand_retries |-> 10, rdseed_retries |-> 10,
     xstore_quality |-> 3, oversample |-> 2, fallback_mix_bytes |-> 32]

\* What the CPU does on one call: which collect_* succeed.
InstrEnv == [Instr -> BOOLEAN]

\* Variant: the enable flags are not consulted.
instruction_order_unfiltered(config) ==
    CASE config.prefer = Rdseed -> <<Rdseed, Rdrand, Xstore>>
      [] config.prefer = Rdrand -> <<Rdrand, Rdseed, Xstore>>
      [] config.prefer = Xstore -> <<Xstore, Rdseed, Rdrand>>

\* fn instruction_order(config: &CpuRngConfig) -> Vec<CpuRngPreference>
instruction_order(config) ==
    LET all == CASE config.prefer = Rdseed -> <<Rdseed, Rdrand, Xstore>>
                 [] config.prefer = Rdrand -> <<Rdrand, Rdseed, Xstore>>
                 [] config.prefer = Xstore -> <<Xstore, Rdseed, Rdrand>>
        enabled(pref) == CASE pref = Rdseed -> config.enable_rdseed
                           [] pref = Rdrand -> config.enable_rdrand
                           [] pref = Xstore -> config.enable_xstore
    IN  SelectSeq(all, enabled)

\* collect_rdseed / collect_rdrand / collect_xstore: count bytes or an error.
try_instruction(pref, count, cpu) ==
    IF cpu[pref] THEN [ok |-> TRUE, len |-> count, err |-> NoError, label |-> pref]
    ELSE [ok |-> FALSE, len |-> 0, err |-> ErrNoEntropy, label |-> ""]

\* The for loop of collect_cpu_entropy from position i of the order.
RECURSIVE cpu_loop(_, _, _, _, _)
cpu_loop(order, i, count, cpu, last_err) ==
    IF i > Len(order) THEN last_err
    ELSE LET r == try_instruction(order[i], count, cpu)
         IN  IF r.ok THEN r ELSE cpu_loop(order, i + 1, count, cpu, r)

collect_cpu_entropy(count, config, cpu) ==
    LET order == instruction_order(config)
        none == [ok |-> FALSE, len |-> 0, err |-> ErrNoEntropy, label |-> ""]
    IN  IF order = << >> THEN none
        ELSE cpu_loop(order, 1, count, cpu, none)

\* raw_count = count.saturating_mul(oversample); the expander returns count bytes.
collect_cpu_entropy_standalone(count, config, cpu) ==
    IF config.oversample <= 1 THEN collect_cpu_entropy(count, config, cpu)
    ELSE LET result == collect_cpu_entropy(count * config.oversample, config, cpu)
         IN  IF ~result.ok THEN result
             ELSE [ok |-> TRUE, len |-> count, err |-> NoError, label |-> result.label]

\* unwrap_or_default: the bytes, or an empty Vec on failure.
collect_cpu_entropy_best_effort(count, config, cpu) ==
    LET r == collect_cpu_entropy(count, config, cpu)
    IN  IF r.ok THEN r.len ELSE 0

\* ------------------------------------------------------- adapters (entropy/)

HwrngEnv == {"open_fail", "read_fail", "ok"}

read_hwrng(count, e) ==
    IF e = "open_fail" THEN Err(ErrNoEntropy)
    ELSE IF e = "read_fail" THEN Err(ErrIo)
    ELSE Ok(count)

\* What read_haveged meets: the /proc scan, entropy_avail, the open and the
\* poll/read loop on /dev/random.
HavegedEnv ==
    [running : BOOLEAN, sufficient : BOOLEAN, open_ok : BOOLEAN,
     io : {"ok", "deadline", "poll_fail", "read_err", "zero_read"}]

read_haveged(count, e) ==
    IF ~e.running THEN Err(ErrNoEntropy)
    ELSE IF ~e.sufficient THEN Err(ErrNoEntropy)
    ELSE IF ~e.open_ok THEN Err(ErrNoEntropy)
    ELSE IF e.io = "deadline" THEN Err(ErrNoEntropy)
    ELSE IF e.io = "poll_fail" THEN Err(ErrNoEntropy)
    ELSE IF e.io = "read_err" THEN Err(ErrIo)
    ELSE IF e.io = "zero_read" THEN Err(ErrNoEntropy)
    ELSE Ok(count)

\* A procfs read: fs::read, Ok with the file's bytes or Err.
ProcRead == {[ok |-> FALSE, len |-> 0], [ok |-> TRUE, len |-> ProcLen]}

\* fs::read(path).unwrap_or_default()
read_interrupts(r) == IF r.ok THEN r.len ELSE 0
read_stat(r) == IF r.ok THEN r.len ELSE 0
read_diskstats(r) == IF r.ok THEN r.len ELSE 0

\* 8 bytes per timestamp.
collect_jitter_samples(count) == 8 * count

\* --------------------------------------------- fallback compositor (fallback.rs)

\* What one generate_fallback call meets.
FallbackEnv ==
    [ur_open : BOOLEAN, ur_read : BOOLEAN,
     interrupts : ProcRead, stat : ProcRead, diskstats : ProcRead,
     cpu : InstrEnv]

\* generate_fallback with the CPU entropy collected by collect_cpu_entropy(..)?
\* instead of the best-effort wrapper: a CPU failure becomes the call's failure.
generate_fallback_cpu_required(count, config, e) ==
    IF ~e.ur_open \/ ~e.ur_read \/ ~collect_cpu_entropy(config.fallback_mix_bytes, config, e.cpu).ok
    THEN [ok |-> FALSE, len |-> 0, err |-> ErrIo, mix |-> << >>]
    ELSE [ok |-> TRUE, len |-> count, err |-> NoError,
          mix |-> << <<"urandom", 32>>, <<"interrupts", read_interrupts(e.interrupts)>>,
                     <<"stat", read_stat(e.stat)>>, <<"diskstats", read_diskstats(e.diskstats)>>,
                     <<"jitter", collect_jitter_samples(64)>>,
                     <<"cpu-rng", config.fallback_mix_bytes>> >>]

\* The result, with the (label, length) pairs handed to the mixer.
generate_fallback(count, config, e) ==
    IF ~e.ur_open THEN [ok |-> FALSE, len |-> 0, err |-> ErrIo, mix |-> << >>]
    ELSE IF ~e.ur_read THEN [ok |-> FALSE, len |-> 0, err |-> ErrIo, mix |-> << >>]
    ELSE LET interrupts == read_interrupts(e.interrupts)
             stat == read_stat(e.stat)
             diskstats == read_diskstats(e.diskstats)
             jitter == collect_jitter_samples(64)
             cpu_entropy ==
                 collect_cpu_entropy_best_effort(config.fallback_mix_bytes, config, e.cpu)
         IN  [ok |-> TRUE, len |-> count, err |-> NoError,
              mix |-> << <<"urandom", 32>>, <<"interrupts", interrupts>>,
                         <<"stat", stat>>, <<"diskstats", diskstats>>,
                         <<"jitter", jitter>>, <<"cpu-rng", cpu_entropy>> >>]

\* ------------------------------------------------------- machine integers

\* An unsigned integer of w bytes is the sequence of its w base-256 digits,
\* least significant first.
RECURSIVE Digits(_, _)
Digits(n, w) == IF w = 0 THEN << >> ELSE <<n % 256>> \o Digits(n \div 256, w - 1)

\* usize (64-bit) and u32 values of a small number.
U64(n) == Digits(n, 8)
U32(n) == Digits(n, 4)

IsZero(d) == \A i \in 1..Len(d) : d[i] = 0

\* `x as u32` and `x as i32` of a wider unsigned x: the low 4 bytes.
as_u32(d) == SubSeq(d, 1, 4)
as_i32(d) == SubSeq(d, 1, 4)

\* d * k with carry c: Len(d) + 1 digits, exact (k is at most 8).
RECURSIVE MulDigits(_, _, _)
MulDigits(d, k, c) ==
    IF d = << >> THEN <<c>>
    ELSE <<(d[1] * k + c) % 256>> \o MulDigits(Tail(d), k, (d[1] * k + c) \div 256)

\* u32 * u32: the wrapped product and whether it overflowed.
mul_u32(a, k) ==
    LET p == MulDigits(a, k, 0)
    IN  [value |-> SubSeq(p, 1, 4), overflow |-> p[5] # 0]

\* d * k with carry c, for k and c below 2^17: Len(d) + 3 digits, exact.
RECURSIVE MulWide(_, _, _)
MulWide(d, k, c) ==
    IF d = << >> THEN Digits(c, 3)
    ELSE <<(d[1] * k + c) % 256>> \o MulWide(Tail(d), k, (d[1] * k + c) \div 256)

\* d + c for a small c: Len(d) + 1 digits, exact.
RECURSIVE AddDigits(_, _)
AddDigits(d, c) ==
    IF d = << >> THEN <<c>>
    ELSE <<(d[1] + c) % 256>> \o AddDigits(Tail(d), (d[1] + c) \div 256)

\* u64 * u64 as the `*` operator computes it: the wrapped product and whether
\* it overflowed.
mul_u64(a, k) ==
    LET p == MulWide(a, k, 0)
    IN  [value |-> SubSeq(p, 1, 8), overflow |-> ~IsZero(SubSeq(p, 9, Len(p)))]

\* u64::checked_mul and u64::checked_add with a small operand.
checked_mul(a, k) ==
    LET p == MulWide(a, k, 0)
    IN  [some |-> IsZero(SubSeq(p, 9, Len(p))), value |-> SubSeq(p, 1, 8)]

checked_add(a, x) ==
    LET p == AddDigits(a, x)
    IN  [some |-> p[9] = 0, value |-> SubSeq(p, 1, 8)]

Reverse(s) == [i \in 1..Len(s) |-> s[Len(s) + 1 - i]]

\* to_ne_bytes of a 4-byte integer on this host.
to_ne_bytes(d, big_endian) == IF big_endian THEN Reverse(d) ELSE d

\* ------------------------------------------ kernel pool-info record (daemon.rs)

\* x & !3
AndNot3(x) == x - (x % 4)

\* buf[from..to].copy_from_slice(src), offsets from 0.
copy_from_slice(buf, from, to, src) ==
    [i \in 1..Len(buf) |-> IF i > from /\ i <= to THEN src[i - from] ELSE buf[i]]

\* The two header fields of build_rand_pool_info for a payload whose length
\* is the usize len: entropy_bits as i32 and len as i32, in host byte order.
pool_info_header(len, entropy_bits, big_endian) ==
    LET buf_size == as_i32(len)
    IN  to_ne_bytes(as_i32(entropy_bits), big_endian) \o to_ne_bytes(buf_size, big_endian)

\* build_rand_pool_info without the padding: total = 8 + data.len().
build_rand_pool_info_unpadded(data, entropy_bits, big_endian) ==
    pool_info_header(U64(Len(data)), entropy_bits, big_endian) \o data

build_rand_pool_info(data, entropy_bits, big_endian) ==
    LET padded_len == AndNot3(Len(data) + 3)
        total == 4 + 4 + padded_len
        header == pool_info_header(U64(Len(data)), entropy_bits, big_endian)
        buf0 == [i \in 1..total |-> 0]
        buf1 == copy_from_slice(buf0, 0, 4, SubSeq(header, 1, 4))
        buf2 == copy_from_slice(buf1, 4, 8, SubSeq(header, 5, 8))
    IN  copy_from_slice(buf2, 8, 8 + Len(data), data)

\* ------------------------------------------------------------------- state

VARIABLES
    g_pc,       \* selector: the adapter generate is about to try, or "done"
    g_count,    \* selector: the byte count requested
    g_cfg,      \* selector: the CpuRngConfig
    g_calls,    \* selector: the adapters invoked so far, with what each met
    g_result,   \* selector: what generate returned
    g_fb,       \* selector: what the fallback compositor met and mixed, once called
    d_pc,       \* daemon: position of run
    d_args,     \* daemon: DaemonArgs
    d_host,     \* daemon: the build and host (overflow checks, byte order)
    SHUTDOWN,   \* the process-wide shutdown flag
    d_result,   \* daemon: what run returned
    d_ticks,    \* daemon: ticks begun
    d_tick,     \* daemon: what the current tick did
    d_pool,     \* daemon: header of the last pool-info record handed to the ioctl
    d_sleep,    \* daemon: interruptible_sleep's remaining, step and time slept (ms)
    p_pc,       \* pool-info: "call" before build_rand_pool_info is applied, "built" after
    p_in,       \* pool-info: the arguments data and entropy_bits, and the host byte order
    p_buf,      \* pool-info: the buffer returned
    c_pc,       \* check: position of run
    c_args,     \* check: CheckArgs (duration, sample_size, sources)
    c_host,     \* check: the source kinds this host can serve at all
    c_probed,   \* check: the outcome of each probe made so far, in candidate order
    c_available,\* check: probe_sources' Vec available
    c_sources,  \* check: the surviving sources
    c_i,        \* check: index of the for loop over the sources
    c_stats,    \* check: stats_vec, one SourceStats per surviving source
    c_expired,  \* check: Instant::now() >= deadline
    c_last,     \* check: the last collect_sample of the loop (source index, outcome)
    c_break,    \* check: which disjunct of the between-sample check broke the loop
    c_notice,   \* check: the notice printed after the loop
    c_report,   \* check: the arguments of print_final_report, once called
    c_result,   \* check: what run returned
    m_pc,       \* main: position of main
    m_cli,      \* main: the parsed command line
    m_file,     \* main: what load_config finds at the path it uses
    m_raw,      \* main: the layered CpuRngConfig before validate
    m_cfg,      \* main: the CpuRngConfig build_cpu_rng_config returns
    m_warned,   \* main: build_cpu_rng_config logged a load_config error
    m_ran,      \* main: the part of the program that got past its argument checks
    m_exit,     \* main: the process exit code
    f_pc,       \* a function alone: "call" before it is applied, "done" after
    f_in,       \* a function alone: its arguments
    f_out       \* a function alone: what it returned

genVars == <<g_pc, g_count, g_cfg, g_calls, g_result, g_fb>>
daemonVars == <<d_pc, d_args, d_host, d_result, d_ticks, d_tick, d_pool, d_sleep>>

poolVars == <<p_pc, p_in, p_buf>>

checkVars == <<c_pc, c_args, c_host, c_probed, c_available, c_sources, c_i, c_stats,
               c_expired, c_last, c_break, c_notice, c_report, c_result>>

mainVars == <<m_pc, m_cli, m_file, m_raw, m_cfg, m_warned, m_ran, m_exit>>

funVars == <<f_pc, f_in, f_out>>

vars == <<genVars, daemonVars, poolVars, checkVars, mainVars, funVars, SHUTDOWN>>

NoResult == [ok |-> FALSE, len |-> 0, err |-> NoError, source |-> "", instr |-> "",
             oversample |-> 0]

\* ---------------------------------------------------- selector (entropy/mod.rs)

\* The parts of the program a run does not enter stay as they are before main
\* dispatches to them.
GenIdle ==
    /\ g_pc = "idle"
    /\ g_count = 0
    /\ g_cfg = DefaultConfig
    /\ g_calls = << >>
    /\ g_result = NoResult
    /\ g_fb = << >>

NoTick == [avail_ok |-> FALSE, avail |-> 0, fallback_called |-> FALSE,
           fallback_ok |-> FALSE, ioctl_called |-> FALSE, ioctl_ok |-> FALSE]

NoSleep == [remaining |-> 0, step |-> 0, slept |-> 0]

DaemonIdle ==
    /\ d_pc = "idle"
    /\ d_args = [threshold |-> 0, interval |-> 0, batch_size |-> U64(0), credit_ratio |-> 1]
    /\ d_host = [overflow_checks |-> FALSE, big_endian |-> FALSE]
    /\ d_result = NoError
    /\ d_ticks = 0
    /\ d_tick = NoTick
    /\ d_pool = << >>
    /\ d_sleep = NoSleep

PoolIdle ==
    /\ p_pc = "idle"
    /\ p_in = [data |-> << >>, entropy_bits |-> U32(0), big_endian |-> FALSE]
    /\ p_buf = << >>

\* Option<T>: None is the empty sequence, Some(v) is <<v>>.
None == << >>
Some(v) == <<v>>

NoCpuRngArgs ==
    [enable_rdseed |-> None, enable_rdrand |-> None, enable_xstore |-> None,
     rdrand_retries |-> None, rdseed_retries |-> None, xstore_quality |-> None,
     cpu_rng_prefer |-> None, fallback_mix_bytes |-> None, oversample |-> None]

MainIdle ==
    /\ m_pc = "idle"
    /\ m_cli = [command |-> "", bytes |-> 0, batch_size |-> 0, duration |-> << >>,
                config_file |-> FALSE, cpu_rng |-> NoCpuRngArgs]
    /\ m_file = [exists |-> FALSE, read_ok |-> FALSE, parse_ok |-> FALSE,
                 cpu_rng |-> DefaultConfig]
    /\ m_raw = DefaultConfig
    /\ m_cfg = DefaultConfig
    /\ m_warned = FALSE
    /\ m_ran = "none"
    /\ m_exit = 0

FunIdle ==
    /\ f_pc = "idle"
    /\ f_in = << >>
    /\ f_out = << >>

NoSample == [i |-> 0, ok |-> FALSE, data |-> ""]

CheckIdle ==
    /\ c_pc = "idle"
    /\ c_args = [duration |-> << >>, sample_size |-> 0,
                 sources |-> [given |-> FALSE, names |-> << >>]]
    /\ c_host = {}
    /\ c_probed = << >>
    /\ c_available = << >>
    /\ c_sources = << >>
    /\ c_i = 0
    /\ c_stats = << >>
    /\ c_expired = FALSE
    /\ c_last = NoSample
    /\ c_break = "none"
    /\ c_notice = ""
    /\ c_report = << >>
    /\ c_result = NoError

\* The subsystems a run of one function alone does not enter.
FunFrame == UNCHANGED <<genVars, daemonVars, poolVars, checkVars, mainVars, SHUTDOWN>>

AllIdle == GenIdle /\ DaemonIdle /\ PoolIdle /\ CheckIdle /\ MainIdle /\ SHUTDOWN = FALSE

GenInit ==
    /\ g_pc = "hwrng"
    /\ g_count \in 1..MaxCount
    /\ g_cfg \in CpuRngConfigs
    /\ g_calls = << >>
    /\ g_result = NoResult
    /\ g_fb = << >>
    /\ SHUTDOWN = FALSE
    /\ DaemonIdle
    /\ PoolIdle
    /\ CheckIdle
    /\ MainIdle
    /\ FunIdle

GenFrame == UNCHANGED <<daemonVars, poolVars, checkVars, mainVars, funVars, SHUTDOWN>>

Call(adapter, r) == [adapter |-> adapter, ok |-> r.ok, len |-> r.len, err |-> r.err]

GenReturnOk(len, source, instr, oversample) ==
    /\ g_result' = [ok |-> TRUE, len |-> len, err |-> NoError, source |-> source,
                    instr |-> instr, oversample |-> oversample]
    /\ g_pc' = "done"

GenReturnErr(kind) ==
    /\ g_result' = [NoResult EXCEPT !.err = kind]
    /\ g_pc' = "done"

TryHwrng ==
    /\ g_pc = "hwrng"
    /\ \E e \in HwrngEnv :
          LET r == read_hwrng(g_count, e) IN
          /\ g_calls' = Append(g_calls, Call("hwrng", r))
          /\ IF r.ok THEN GenReturnOk(r.len, "hardware RNG (/dev/hwrng)", "", 0)
             ELSE g_pc' = "cpurng" /\ UNCHANGED g_result
    /\ UNCHANGED <<g_count, g_cfg, g_fb>>
    /\ GenFrame

\* TryCpuRng with the CPU path's error returned to the caller (a `?` on the call).
TryCpuRng_propagates ==
    /\ g_pc = "cpurng"
    /\ \E cpu \in InstrEnv :
          LET r == collect_cpu_entropy_standalone(g_count, g_cfg, cpu) IN
          /\ g_calls' = Append(g_calls, Call("cpurng", r))
          /\ IF r.ok
             THEN GenReturnOk(r.len, "CPU hardware RNG", r.label,
                              IF g_cfg.oversample > 1 THEN g_cfg.oversample ELSE 0)
             ELSE GenReturnErr(r.err)
    /\ UNCHANGED <<g_count, g_cfg, g_fb>>
    /\ GenFrame

TryCpuRng ==
    /\ g_pc = "cpurng"
    /\ \E cpu \in InstrEnv :
          LET r == collect_cpu_entropy_standalone(g_count, g_cfg, cpu) IN
          /\ g_calls' = Append(g_calls, Call("cpurng", r))
          /\ IF r.ok
             THEN GenReturnOk(r.len, "CPU hardware RNG", r.label,
                              IF g_cfg.oversample > 1 THEN g_cfg.oversample ELSE 0)
             ELSE g_pc' = "haveged" /\ UNCHANGED g_result
    /\ UNCHANGED <<g_count, g_cfg, g_fb>>
    /\ GenFrame

TryHaveged ==
    /\ g_pc = "haveged"
    /\ \E e \in HavegedEnv :
          LET r == read_haveged(g_count, e) IN
          /\ g_calls' = Append(g_calls, Call("haveged", r))
          /\ IF r.ok THEN GenReturnOk(r.len, "haveged (/dev/random)", "", 0)
             ELSE g_pc' = "fallback" /\ UNCHANGED g_result
    /\ UNCHANGED <<g_count, g_cfg, g_fb>>
    /\ GenFrame

TryFallback ==
    /\ g_pc = "fallback"
    /\ \E e \in FallbackEnv :
          LET r == generate_fallback(g_count, g_cfg, e) IN
          /\ g_calls' = Append(g_calls, Call("fallback", r))
          /\ g_fb' = <<[env |-> e, mix |-> r.mix]>>
          /\ IF r.ok
             THEN GenReturnOk(r.len,
                     "fallback (urandom + procfs + jitter + cpu-rng -> BLAKE2b -> ChaCha20)",
                     "", 0)
             ELSE GenReturnErr(r.err)
    /\ UNCHANGED <<g_count, g_cfg>>
    /\ GenFrame

GenNext == TryHwrng \/ TryCpuRng \/ TryHaveged \/ TryFallback

SpecGen == GenInit /\ [][GenNext]_vars

\* ------------------------------------------------------- daemon (daemon.rs)

\* Largest entropy_avail value and threshold explored.
MaxAvail == 2
\* Largest poll interval explored, in seconds.
MaxInterval == 1
\* Ticks explored per run.
MaxTicks == 2
\* The sleep step of interruptible_sleep, in milliseconds.
StepMs == 250

\* clap's range for --credit-ratio.
CreditRatios == 1..8

\* Batch sizes explored (usize): 0, 1, 64, 2^29 and 2^32 + 1.
BatchSizes ==
    {U64(0), U64(1), U64(64), <<0, 0, 0, 32, 0, 0, 0, 0>>, <<1, 0, 0, 0, 1, 0, 0, 0>>}

Min(a, b) == IF a <= b THEN a ELSE b

\* main: Command::Daemon, after Cli::parse and build_cpu_rng_config.
DaemonInit ==
    /\ d_pc = "start"
    /\ d_args \in [threshold : 0..MaxAvail, interval : 0..MaxInterval,
                   batch_size : BatchSizes, credit_ratio : CreditRatios]
    /\ d_host \in [overflow_checks : BOOLEAN, big_endian : BOOLEAN]
    /\ d_result = NoError
    /\ d_ticks = 0
    /\ d_tick = NoTick
    /\ d_pool = << >>
    /\ d_sleep = NoSleep
    /\ SHUTDOWN = FALSE
    /\ GenIdle
    /\ PoolIdle
    /\ CheckIdle
    /\ MainIdle
    /\ FunIdle

DaemonFrame == UNCHANGED <<genVars, poolVars, checkVars, mainVars, funVars>>

\* interruptible_sleep(Duration::from_secs(args.interval)) is entered.
EnterSleep ==
    /\ d_pc' = "sleep_check"
    /\ d_sleep' = [remaining |-> 1000 * d_args.interval, step |-> 0, slept |-> 0]

\* run up to the loop: the batch_size check, validate_permissions,
\* install_signal_handlers.
DaemonStart ==
    /\ d_pc = "start"
    /\ IF IsZero(d_args.batch_size)
       THEN d_pc' = "returned" /\ d_result' = ErrInvalidArgs
       ELSE \E open_ok \in BOOLEAN :
               IF open_ok THEN d_pc' = "loop" /\ UNCHANGED d_result
               ELSE d_pc' = "returned" /\ d_result' = ErrIo
    /\ UNCHANGED <<d_args, d_host, d_ticks, d_tick, d_pool, d_sleep, SHUTDOWN>>
    /\ DaemonFrame

\* The loop condition ignores the flag: a tick begins whatever SHUTDOWN is.
LoopCheck_ignores_flag ==
    /\ d_pc = "loop"
    /\ d_ticks < MaxTicks
    /\ d_pc' = "read_avail"
    /\ d_ticks' = d_ticks + 1
    /\ d_tick' = NoTick
    /\ UNCHANGED <<d_args, d_host, d_result, d_pool, d_sleep, SHUTDOWN>>
    /\ DaemonFrame

\* while !SHUTDOWN.load(..): a tick begins, or run logs and returns Ok(()).
LoopCheck ==
    /\ d_pc = "loop"
    /\ IF SHUTDOWN
       THEN /\ d_pc' = "returned"
            /\ d_result' = "Ok"
            /\ UNCHANGED <<d_ticks, d_tick>>
       ELSE /\ d_ticks < MaxTicks
            /\ d_pc' = "read_avail"
            /\ d_ticks' = d_ticks + 1
            /\ d_tick' = NoTick
            /\ UNCHANGED d_result
    /\ UNCHANGED <<d_args, d_host, d_pool, d_sleep, SHUTDOWN>>
    /\ DaemonFrame

\* read_entropy_avail: Err on a failed read or parse, else the value.
AvailReads == {[ok |-> FALSE, value |-> 0]} \cup [ok : {TRUE}, value : 0..MaxAvail]

\* ReadAvail with the comparison avail <= threshold.
ReadAvail_le ==
    /\ d_pc = "read_avail"
    /\ \E r \in AvailReads :
          IF r.ok /\ r.value <= d_args.threshold
          THEN /\ d_tick' = [d_tick EXCEPT !.avail_ok = TRUE, !.avail = r.value]
               /\ d_pc' = "generate"
               /\ UNCHANGED d_sleep
          ELSE /\ d_tick' = [d_tick EXCEPT !.avail_ok = r.ok, !.avail = r.value]
               /\ EnterSleep
    /\ UNCHANGED <<d_args, d_host, d_result, d_ticks, d_pool, SHUTDOWN>>
    /\ DaemonFrame

\* match read_entropy_avail(): below the threshold the tick generates, else
\* (or on Err) it logs and goes to the sleep.
ReadAvail ==
    /\ d_pc = "read_avail"
    /\ \E r \in AvailReads :
          IF r.ok /\ r.value < d_args.threshold
          THEN /\ d_tick' = [d_tick EXCEPT !.avail_ok = TRUE, !.avail = r.value]
               /\ d_pc' = "generate"
               /\ UNCHANGED d_sleep
          ELSE /\ d_tick' = [d_tick EXCEPT !.avail_ok = r.ok, !.avail = r.value]
               /\ EnterSleep
    /\ UNCHANGED <<d_args, d_host, d_result, d_ticks, d_pool, SHUTDOWN>>
    /\ DaemonFrame

\* Generate with the compositor's error returned from run (a `?` on the call).
Generate_propagates ==
    /\ d_pc = "generate"
    /\ \E e \in FallbackEnv :
          LET r == generate_fallback(d_args.batch_size, DefaultConfig, e) IN
          /\ d_tick' = [d_tick EXCEPT !.fallback_called = TRUE, !.fallback_ok = r.ok]
          /\ IF r.ok THEN d_pc' = "inject" /\ UNCHANGED <<d_sleep, d_result>>
             ELSE d_pc' = "returned" /\ d_result' = r.err /\ UNCHANGED d_sleep
    /\ UNCHANGED <<d_args, d_host, d_ticks, d_pool, SHUTDOWN>>
    /\ DaemonFrame

\* fallback::generate_fallback(args.batch_size, cpu_config): Ok(data) goes on
\* to the injection, Err is logged and the tick goes to the sleep.
Generate ==
    /\ d_pc = "generate"
    /\ \E e \in FallbackEnv :
          LET r == generate_fallback(d_args.batch_size, DefaultConfig, e) IN
          /\ d_tick' = [d_tick EXCEPT !.fallback_called = TRUE, !.fallback_ok = r.ok]
          /\ IF r.ok THEN d_pc' = "inject" /\ UNCHANGED d_sleep
             ELSE EnterSleep
    /\ UNCHANGED <<d_args, d_host, d_result, d_ticks, d_pool, SHUTDOWN>>
    /\ DaemonFrame

\* credit_bits = args.batch_size as u32 * args.credit_ratio, then
\* inject_entropy(&dev_random, &data, credit_bits): the record is built and
\* handed to the ioctl, whose failure is logged.  data.len() is batch_size.
\* With overflow checks the multiplication panics on overflow.
Inject ==
    /\ d_pc = "inject"
    /\ LET credit == mul_u32(as_u32(d_args.batch_size), d_args.credit_ratio) IN
       IF credit.overflow /\ d_host.overflow_checks
       THEN /\ d_pc' = "panicked"
            /\ UNCHANGED <<d_tick, d_pool, d_sleep>>
       ELSE /\ d_pool' = pool_info_header(d_args.batch_size, credit.value, d_host.big_endian)
            /\ \E ioctl_ok \in BOOLEAN :
                  d_tick' = [d_tick EXCEPT !.ioctl_called = TRUE, !.ioctl_ok = ioctl_ok]
            /\ EnterSleep
    /\ UNCHANGED <<d_args, d_host, d_result, d_ticks, SHUTDOWN>>
    /\ DaemonFrame

\* The sleep loop with the condition remaining > Duration::ZERO alone.
SleepCheck_ignores_flag ==
    /\ d_pc = "sleep_check"
    /\ IF d_sleep.remaining > 0
       THEN /\ d_pc' = "sleeping"
            /\ d_sleep' = [d_sleep EXCEPT !.step = Min(d_sleep.remaining, StepMs)]
       ELSE /\ d_pc' = "loop"
            /\ UNCHANGED d_sleep
    /\ UNCHANGED <<d_args, d_host, d_result, d_ticks, d_tick, d_pool, SHUTDOWN>>
    /\ DaemonFrame

\* while remaining > Duration::ZERO && !SHUTDOWN.load(..): the next step
\* s = remaining.min(step) begins, or interruptible_sleep returns.
SleepCheck ==
    /\ d_pc = "sleep_check"
    /\ IF d_sleep.remaining > 0 /\ ~SHUTDOWN
       THEN /\ d_pc' = "sleeping"
            /\ d_sleep' = [d_sleep EXCEPT !.step = Min(d_sleep.remaining, StepMs)]
       ELSE /\ d_pc' = "loop"
            /\ UNCHANGED d_sleep
    /\ UNCHANGED <<d_args, d_host, d_result, d_ticks, d_tick, d_pool, SHUTDOWN>>
    /\ DaemonFrame

\* thread::sleep(s) returns; remaining = remaining.saturating_sub(s).
SleepStep ==
    /\ d_pc = "sleeping"
    /\ d_sleep' = [remaining |-> IF d_sleep.remaining >= d_sleep.step
                                 THEN d_sleep.remaining - d_sleep.step ELSE 0,
                   step |-> d_sleep.step,
                   slept |-> d_sleep.slept + d_sleep.step]
    /\ d_pc' = "sleep_check"
    /\ UNCHANGED <<d_args, d_host, d_result, d_ticks, d_tick, d_pool, SHUTDOWN>>
    /\ DaemonFrame

\* signal_handler: SIGINT or SIGTERM is delivered once the handlers are
\* installed and while run has not returned.
\* Variant: the handler flips the flag instead of storing true.
DaemonSignal_toggles ==
    /\ d_pc \in {"loop", "read_avail", "generate", "inject", "sleep_check", "sleeping"}
    /\ SHUTDOWN' = ~SHUTDOWN
    /\ UNCHANGED daemonVars
    /\ DaemonFrame

DaemonSignal ==
    /\ d_pc \in {"loop", "read_avail", "generate", "inject", "sleep_check", "sleeping"}
    /\ SHUTDOWN' = TRUE
    /\ UNCHANGED daemonVars
    /\ DaemonFrame

DaemonNext ==
    \/ DaemonStart \/ LoopCheck \/ ReadAvail \/ Generate \/ Inject
    \/ SleepCheck \/ SleepStep \/ DaemonSignal

SpecDaemon == DaemonInit /\ [][DaemonNext]_vars

\* ------------------------------------- build_rand_pool_info alone (daemon.rs)

\* Longest payload explored.
MaxData == 5

\* Payload byte values explored.
PoolBytes == {1, 2, 3, 255}

\* entropy_bits values explored (u32): 0, 8, 512, 0x01020304 and 2^31.
PoolBits == {U32(0), U32(8), U32(512), <<4, 3, 2, 1>>, <<0, 0, 0, 128>>}

PayloadsOfLen(n) == [1..n -> PoolBytes]

PoolInit ==
    /\ p_pc = "call"
    /\ p_in \in [data : UNION {PayloadsOfLen(n) : n \in 0..MaxData},
                 entropy_bits : PoolBits, big_endian : BOOLEAN]
    /\ p_buf = << >>
    /\ SHUTDOWN = FALSE
    /\ GenIdle
    /\ DaemonIdle
    /\ CheckIdle
    /\ MainIdle
    /\ FunIdle

\* inject_entropy: let buf = build_rand_pool_info(data, entropy_bits).
PoolBuild ==
    /\ p_pc = "call"
    /\ p_buf' = build_rand_pool_info(p_in.data, p_in.entropy_bits, p_in.big_endian)
    /\ p_pc' = "built"
    /\ UNCHANGED <<p_in, genVars, daemonVars, checkVars, mainVars, funVars, SHUTDOWN>>

PoolNext == PoolBuild

SpecPool == PoolInit /\ [][PoolNext]_vars

\* ------------------------------------------------- check orchestrator (check.rs)

\* Sampling attempts explored in one run of the check loop.
MaxAttempts == 2
\* sample_start.elapsed() of a successful sample, in milliseconds.
SampleMs == 1
\* The FIPS 140-2 block: 20,000 bits.
FipsBytes == 2500
\* The size of a probe read.
ProbeBytes == 32

\* Strings whose characters the code inspects are sequences of ASCII codes.
candidates == <<"Hwrng", "Rdseed", "Rdrand", "Xstore", "Haveged", "Urandom", "Fallback">>

SourceKind == {candidates[k] : k \in 1..Len(candidates)}

\* SourceKind::name
name(kind) ==
    CASE kind = "Hwrng" -> <<104, 119, 114, 110, 103>>
      [] kind = "Rdseed" -> <<114, 100, 115, 101, 101, 100>>
      [] kind = "Rdrand" -> <<114, 100, 114, 97, 110, 100>>
      [] kind = "Xstore" -> <<120, 115, 116, 111, 114, 101>>
      [] kind = "Haveged" -> <<104, 97, 118, 101, 103, 101, 100>>
      [] kind = "Urandom" -> <<117, 114, 97, 110, 100, 111, 109>>
      [] kind = "Fallback" -> <<102, 97, 108, 108, 98, 97, 99, 107>>

\* u8::to_ascii_lowercase
to_ascii_lowercase(c) == IF c \in 65..90 THEN c + 32 ELSE c

\* Byte-for-byte equality, in place of the case-insensitive comparison.
eq_exact(a, b) == a = b

\* str::eq_ignore_ascii_case
eq_ignore_ascii_case(a, b) ==
    /\ Len(a) = Len(b)
    /\ \A k \in 1..Len(a) : to_ascii_lowercase(a[k]) = to_ascii_lowercase(b[k])

\* --duration values explored: "1m" (the default), "0s" and "".
Durations == {<<49, 109>>, <<48, 115>>, << >>}

\* --sample-size values explored: below the FIPS block size, the block size
\* (the default), and two blocks.
SampleSizes == {ProbeBytes, FipsBytes, 2 * FipsBytes}

\* --sources values explored: absent, "RdSeed,haveged", "URANDOM,hwrng" and
\* "nosuch".
SourceArgs ==
    {[given |-> FALSE, names |-> << >>],
     [given |-> TRUE, names |-> << <<82, 100, 83, 101, 101, 100>>,
                                   <<104, 97, 118, 101, 103, 101, 100>> >>],
     [given |-> TRUE, names |-> << <<85, 82, 65, 78, 68, 79, 77>>,
                                   <<104, 119, 114, 110, 103>> >>],
     [given |-> TRUE, names |-> << <<110, 111, 115, 117, 99, 104>> >>]}

\* The hosts explored, each by the source kinds it can serve at all: an x86
\* host with RDSEED and RDRAND, and a VIA host with a hardware RNG device and
\* haveged.  A kind the host can serve may still fail on any one call.
Hosts == {{"Rdseed", "Rdrand", "Urandom", "Fallback"},
          {"Hwrng", "Xstore", "Haveged", "Urandom"}}

\* str::trim, on ASCII white space.
IsSpace(c) == c \in {9, 10, 11, 12, 13, 32}

RECURSIVE trim_start(_)
trim_start(s) == IF s # << >> /\ IsSpace(Head(s)) THEN trim_start(Tail(s)) ELSE s

RECURSIVE trim_end(_)
trim_end(s) ==
    IF s # << >> /\ IsSpace(s[Len(s)]) THEN trim_end(SubSeq(s, 1, Len(s) - 1)) ELSE s

trim(s) == trim_end(trim_start(s))

\* str::strip_suffix(char)
strip_suffix(s, c) ==
    IF s # << >> /\ s[Len(s)] = c
    THEN [some |-> TRUE, rest |-> SubSeq(s, 1, Len(s) - 1)]
    ELSE [some |-> FALSE, rest |-> s]

\* The digit loop of u64::from_str: result * 10 + digit with checked
\* arithmetic, PosOverflow ending the parse.
RECURSIVE digits_value(_, _)
digits_value(s, acc) ==
    IF s = << >> THEN [ok |-> TRUE, value |-> acc]
    ELSE LET m == checked_mul(acc, 10)
             a == checked_add(m.value, Head(s) - 48)
         IN  IF ~m.some \/ ~a.some THEN [ok |-> FALSE, value |-> U64(0)]
             ELSE digits_value(Tail(s), a.value)

\* str::parse::<u64>: an optional '+', then one or more decimal digits whose
\* value fits in 64 bits.
parse_u64(s) ==
    LET digits == IF s # << >> /\ s[1] = 43 THEN Tail(s) ELSE s
    IN  IF digits = << >> \/ \E k \in 1..Len(digits) : digits[k] \notin 48..57
        THEN [ok |-> FALSE, value |-> U64(0)]
        ELSE digits_value(digits, U64(0))

InvalidDuration == [ok |-> FALSE, secs |-> U64(0), err |-> ErrInvalidArgs, overflow |-> FALSE]

\* parse_duration: the seconds as a u64, or InvalidArgs.  overflow tells that
\* num * multiplier exceeded the u64 range: secs is then the wrapped product a
\* build without overflow checks returns, and a build with them panics.
parse_duration(str) ==
    LET s == trim(str)
        split == IF strip_suffix(s, 115).some THEN <<strip_suffix(s, 115).rest, 1>>
                 ELSE IF strip_suffix(s, 109).some THEN <<strip_suffix(s, 109).rest, 60>>
                 ELSE IF strip_suffix(s, 104).some THEN <<strip_suffix(s, 104).rest, 3600>>
                 ELSE IF strip_suffix(s, 100).some THEN <<strip_suffix(s, 100).rest, 86400>>
                 ELSE <<s, 60>>
        num == parse_u64(split[1])
        product == mul_u64(num.value, split[2])
    IN  IF s = << >> THEN InvalidDuration
        ELSE IF ~num.ok THEN InvalidDuration
        ELSE IF IsZero(num.value) THEN InvalidDuration
        ELSE [ok |-> TRUE, secs |-> product.value, err |-> NoError,
              overflow |-> product.overflow]

UrandomEnv == {"open_fail", "read_fail", "ok"}

\* check.rs read_urandom
read_urandom(count, e) ==
    IF e = "open_fail" THEN Err(ErrNoEntropy)
    ELSE IF e = "read_fail" THEN Err(ErrIo)
    ELSE Ok(count)

\* What one collect_sample call of the given kind meets.
SampleEnv(source) ==
    CASE source = "Hwrng" -> HwrngEnv
      [] source \in {"Rdseed", "Rdrand", "Xstore"} -> InstrEnv
      [] source = "Haveged" -> HavegedEnv
      [] source = "Urandom" -> UrandomEnv
      [] source = "Fallback" -> FallbackEnv

\* The Result<Vec<u8>, Error> of a call, without the fields the caller drops.
Bytes(r) == [ok |-> r.ok, len |-> r.len, err |-> r.err]

collect_sample(source, count, config, e) ==
    CASE source = "Hwrng" -> read_hwrng(count, e)
      [] source = "Rdseed" -> Bytes(try_instruction(Rdseed, count, e))
      [] source = "Rdrand" -> Bytes(try_instruction(Rdrand, count, e))
      [] source = "Xstore" -> Bytes(try_instruction(Xstore, count, e))
      [] source = "Haveged" -> read_haveged(count, e)
      [] source = "Urandom" -> read_urandom(count, e)
      [] source = "Fallback" -> Bytes(generate_fallback(count, config, e))

\* The contents of a successful sample are a sequence of blocks of up to 2500
\* bytes, each all zero bytes, all 0xAA bytes, or ChaCha20 output.
SampleData(count) ==
    IF count <= FipsBytes THEN {<<"zeros">>, <<"aa">>, <<"chacha">>}
    ELSE {<<"zeros", "chacha">>, <<"chacha", "zeros">>, <<"chacha", "chacha">>}

\* &data[..2500]
first_2500(data) == Head(data)

\* fips_suite on a 2500-byte block of each kind.
fips_suite(fips_data) ==
    CASE fips_data = "zeros" ->
           [monobit |-> FALSE, poker |-> FALSE, runs |-> FALSE, long_runs |-> FALSE]
      [] fips_data = "aa" ->
           [monobit |-> TRUE, poker |-> FALSE, runs |-> FALSE, long_runs |-> TRUE]
      [] fips_data = "chacha" ->
           [monobit |-> TRUE, poker |-> TRUE, runs |-> TRUE, long_runs |-> TRUE]

\* Variant: one passing test is enough.
all_passed_any(fips) == fips.monobit \/ fips.poker \/ fips.runs \/ fips.long_runs

\* FipsResult::all_passed
all_passed(fips) == fips.monobit /\ fips.poker /\ fips.runs /\ fips.long_runs

\* entropy_estimates over the whole sample, each f64 rounded to an integer: a
\* constant sample has zero entropy, chi-square 255 * len and its byte as the
\* mean; a sample that is half zeros has about 5 bits of Shannon entropy and
\* 1 bit of min-entropy whichever half comes first.
entropy_estimates(data, len) ==
    CASE data = <<"zeros">> ->
           [shannon |-> 0, min_entropy |-> 0, chi_square |-> 255 * len, mean |-> 0,
            serial_correlation |-> 0]
      [] data = <<"aa">> ->
           [shannon |-> 0, min_entropy |-> 0, chi_square |-> 255 * len, mean |-> 170,
            serial_correlation |-> 0]
      [] data = <<"chacha">> /\ len < 256 ->
           [shannon |-> 5, min_entropy |-> 4, chi_square |-> 256, mean |-> 127,
            serial_correlation |-> 0]
      [] data \in {<<"chacha">>, <<"chacha", "chacha">>} /\ len >= 256 ->
           [shannon |-> 8, min_entropy |-> 7, chi_square |-> 255, mean |-> 127,
            serial_correlation |-> 0]
      [] data \in {<<"zeros", "chacha">>, <<"chacha", "zeros">>} ->
           [shannon |-> 5, min_entropy |-> 1, chi_square |-> 318750, mean |-> 64,
            serial_correlation |-> 1]

\* SourceStats::new
SourceStats_new ==
    [total_samples |-> 0, total_bytes |-> 0, total_time |-> 0,
     fips_monobit_pass |-> 0, fips_poker_pass |-> 0, fips_runs_pass |-> 0,
     fips_long_runs_pass |-> 0, fips_all_pass |-> 0,
     shannon_sum |-> 0, min_entropy_sum |-> 0, chi_square_sum |-> 0, mean_sum |-> 0,
     serial_corr_sum |-> 0, errors |-> 0]

Bump(b) == IF b THEN 1 ELSE 0

\* The Ok(data) arm of the loop's match.
sample_ok(stat, len, data, elapsed, do_fips) ==
    LET fips == fips_suite(first_2500(data))
        est == entropy_estimates(data, len)
    IN  [stat EXCEPT
           !.total_samples = @ + 1,
           !.total_bytes = @ + len,
           !.total_time = @ + elapsed,
           !.fips_monobit_pass = @ + Bump(do_fips /\ fips.monobit),
           !.fips_poker_pass = @ + Bump(do_fips /\ fips.poker),
           !.fips_runs_pass = @ + Bump(do_fips /\ fips.runs),
           !.fips_long_runs_pass = @ + Bump(do_fips /\ fips.long_runs),
           !.fips_all_pass = @ + Bump(do_fips /\ all_passed(fips)),
           !.shannon_sum = @ + est.shannon,
           !.min_entropy_sum = @ + est.min_entropy,
           !.chi_square_sum = @ + est.chi_square,
           !.mean_sum = @ + est.mean,
           !.serial_corr_sum = @ + est.serial_correlation]

\* The Err(_) arm with the failed call counted as a sample as well.
sample_err_counted(stat) ==
    [stat EXCEPT !.errors = @ + 1, !.total_samples = @ + 1]

\* The Err(_) arm of the loop's match.
sample_err(stat) == [stat EXCEPT !.errors = @ + 1]

\* The FIPS tests run on samples longer than the block only.
do_fips_strict == c_args.sample_size > FipsBytes

do_fips == c_args.sample_size >= FipsBytes

RECURSIVE Attempts(_)
Attempts(stats) ==
    IF stats = << >> THEN 0
    ELSE Head(stats).total_samples + Head(stats).errors + Attempts(Tail(stats))

\* main: Command::Check, after Cli::parse and build_cpu_rng_config.
CheckInit ==
    /\ c_pc = "start"
    /\ c_args \in [duration : Durations, sample_size : SampleSizes, sources : SourceArgs]
    /\ c_host \in Hosts
    /\ c_probed = << >>
    /\ c_available = << >>
    /\ c_sources = << >>
    /\ c_i = 0
    /\ c_stats = << >>
    /\ c_expired = FALSE
    /\ c_last = NoSample
    /\ c_break = "none"
    /\ c_notice = ""
    /\ c_report = << >>
    /\ c_result = NoError
    /\ SHUTDOWN = FALSE
    /\ GenIdle
    /\ DaemonIdle
    /\ PoolIdle
    /\ MainIdle
    /\ FunIdle

CheckFrame == UNCHANGED <<genVars, daemonVars, poolVars, mainVars, funVars>>

\* run up to install_signal_handlers: parse_duration(&args.duration)?.
CheckStart ==
    /\ c_pc = "start"
    /\ LET duration == parse_duration(c_args.duration)
       IN  IF ~duration.ok
           THEN /\ c_pc' = "returned"
                /\ c_result' = duration.err
           ELSE \E overflow_checks \in BOOLEAN :
                  IF duration.overflow /\ overflow_checks
                  THEN /\ c_pc' = "panicked"
                       /\ c_result' = c_result
                  ELSE /\ c_pc' = "probe"
                       /\ c_result' = c_result
    /\ UNCHANGED <<c_args, c_host, c_probed, c_available, c_sources, c_i, c_stats,
                   c_expired, c_last, c_break, c_notice, c_report, SHUTDOWN>>
    /\ CheckFrame

\* probe_sources: one pass of its for loop over the candidates.
Probe ==
    /\ c_pc = "probe"
    /\ Len(c_probed) < Len(candidates)
    /\ LET kind == candidates[Len(c_probed) + 1]
       IN  \E e \in SampleEnv(kind) :
             LET r == collect_sample(kind, ProbeBytes, DefaultConfig, e)
             IN  /\ r.ok => kind \in c_host
                 /\ c_probed' = Append(c_probed, r.ok)
                 /\ c_available' = IF r.ok THEN Append(c_available, kind)
                                   ELSE c_available
    /\ UNCHANGED <<c_pc, c_args, c_host, c_sources, c_i, c_stats, c_expired, c_last,
                   c_break, c_notice, c_report, c_result, SHUTDOWN>>
    /\ CheckFrame

\* run from the return of probe_sources to the entry of the loop: the filter
\* by name, the empty check, stats_vec and the deadline.
Filter ==
    /\ c_pc = "probe"
    /\ Len(c_probed) = Len(candidates)
    /\ LET names == c_args.sources.names
           keep(s) == \E k \in 1..Len(names) : eq_ignore_ascii_case(names[k], name(s))
           sources == IF c_args.sources.given THEN SelectSeq(c_available, keep)
                      ELSE c_available
       IN  /\ c_sources' = sources
           /\ IF sources = << >>
              THEN /\ c_pc' = "returned"
                   /\ c_result' = ErrNoEntropy
                   /\ UNCHANGED <<c_stats, c_i>>
              ELSE /\ c_pc' = "loop_check"
                   /\ c_result' = c_result
                   /\ c_stats' = [k \in 1..Len(sources) |-> SourceStats_new]
                   /\ c_i' = 1
    /\ UNCHANGED <<c_args, c_host, c_probed, c_available, c_expired, c_last, c_break,
                   c_notice, c_report, SHUTDOWN>>
    /\ CheckFrame

\* The between-sample check with the shutdown flag left out of it.
CheckLoopCheck_deadline_only ==
    /\ c_pc = "loop_check"
    /\ IF c_expired
       THEN /\ c_pc' = "notice"
            /\ c_break' = "deadline"
       ELSE /\ Attempts(c_stats) < MaxAttempts
            /\ c_pc' = "collect"
            /\ c_break' = c_break
    /\ UNCHANGED <<c_args, c_host, c_probed, c_available, c_sources, c_i, c_stats,
                   c_expired, c_last, c_notice, c_report, c_result, SHUTDOWN>>
    /\ CheckFrame

\* The between-sample check: SHUTDOWN.load() || Instant::now() >= deadline.
CheckLoopCheck ==
    /\ c_pc = "loop_check"
    /\ IF SHUTDOWN
       THEN /\ c_pc' = "notice"
            /\ c_break' = "shutdown"
       ELSE IF c_expired
       THEN /\ c_pc' = "notice"
            /\ c_break' = "deadline"
       ELSE /\ Attempts(c_stats) < MaxAttempts
            /\ c_pc' = "collect"
            /\ c_break' = c_break
    /\ UNCHANGED <<c_args, c_host, c_probed, c_available, c_sources, c_i, c_stats,
                   c_expired, c_last, c_notice, c_report, c_result, SHUTDOWN>>
    /\ CheckFrame

\* Variant: the loop stays on the source it has just sampled.
next_source_stays(i, n) == i

\* 'outer: loop { for i in 0..sources.len() { .. } }: the index after i, from 1.
next_source(i, n) == IF i = n THEN 1 ELSE i + 1

\* One pass of the for loop after its check: collect_sample, the match on its
\* result, and the step to the next source.  print_progress only writes to
\* stderr.
Collect ==
    /\ c_pc = "collect"
    /\ LET source == c_sources[c_i]
       IN  \E e \in SampleEnv(source) :
             LET r == collect_sample(source, c_args.sample_size, DefaultConfig, e)
             IN  /\ r.ok => source \in c_host
                 /\ IF r.ok
                    THEN \E data \in SampleData(r.len) :
                           /\ c_last' = [i |-> c_i, ok |-> TRUE, data |-> data]
                           /\ c_stats' = [c_stats EXCEPT ![c_i] =
                                            sample_ok(@, r.len, data, SampleMs, do_fips)]
                    ELSE /\ c_last' = [i |-> c_i, ok |-> FALSE, data |-> ""]
                         /\ c_stats' = [c_stats EXCEPT ![c_i] = sample_err(@)]
    /\ c_i' = next_source(c_i, Len(c_sources))
    /\ c_pc' = "loop_check"
    /\ UNCHANGED <<c_args, c_host, c_probed, c_available, c_sources, c_expired, c_break,
                   c_notice, c_report, c_result, SHUTDOWN>>
    /\ CheckFrame

\* Variant: the notice chosen by the reason the loop stopped.
Finish_by_break ==
    /\ c_pc = "notice"
    /\ c_notice' = IF c_break = "shutdown" THEN "Interrupted" ELSE "Completed"
    /\ c_report' = <<[stats |-> c_stats, do_fips |-> do_fips]>>
    /\ c_result' = NoError
    /\ c_pc' = "returned"
    /\ UNCHANGED <<c_args, c_host, c_probed, c_available, c_sources, c_i, c_stats,
                   c_expired, c_last, c_break, SHUTDOWN>>
    /\ CheckFrame

\* run after the loop: the notice chosen by a fresh load of the flag, the final
\* report, Ok(()).
Finish ==
    /\ c_pc = "notice"
    /\ c_notice' = IF SHUTDOWN THEN "Interrupted" ELSE "Completed"
    /\ c_report' = <<[stats |-> c_stats, do_fips |-> do_fips]>>
    /\ c_result' = NoError
    /\ c_pc' = "returned"
    /\ UNCHANGED <<c_args, c_host, c_probed, c_available, c_sources, c_i, c_stats,
                   c_expired, c_last, c_break, SHUTDOWN>>
    /\ CheckFrame

\* The clock reaches the deadline.
DeadlinePasses ==
    /\ c_pc \in {"loop_check", "collect"}
    /\ ~c_expired
    /\ c_expired' = TRUE
    /\ UNCHANGED <<c_pc, c_args, c_host, c_probed, c_available, c_sources, c_i, c_stats,
                   c_last, c_break, c_notice, c_report, c_result, SHUTDOWN>>
    /\ CheckFrame

\* signal_handler: SIGINT or SIGTERM is delivered once the handlers are
\* installed and while run has not returned.
CheckSignal ==
    /\ c_pc \in {"probe", "loop_check", "collect", "notice"}
    /\ SHUTDOWN' = TRUE
    /\ UNCHANGED checkVars
    /\ CheckFrame

CheckNext ==
    \/ CheckStart \/ Probe \/ Filter \/ CheckLoopCheck \/ Collect \/ Finish
    \/ DeadlinePasses \/ CheckSignal

SpecCheck == CheckInit /\ [][CheckNext]_vars

\* run is straight-line code around one loop: once the arguments are parsed,
\* each of its steps is taken once it is reached, and collect_sample returns (the longest read is bounded by
\* the haveged deadline).  Signals and the deadline are not forced.
SpecCheckLive ==
    /\ SpecCheck
    /\ WF_vars(Probe) /\ WF_vars(Filter)
    /\ WF_vars(CheckLoopCheck) /\ WF_vars(Collect) /\ WF_vars(Finish)

\* ------------------------------------------------------ main (main.rs, config.rs)

\* u32::clamp / usize::clamp
clamp(v, lo, hi) == IF v < lo THEN lo ELSE IF v > hi THEN hi ELSE v

\* validate with the upper ends of the ranges left open.
validate_lower_only(cfg) ==
    [cfg EXCEPT !.rdrand_retries = IF @ < 1 THEN 1 ELSE @,
                !.rdseed_retries = IF @ < 1 THEN 1 ELSE @,
                !.oversample = IF @ < 1 THEN 1 ELSE @]

\* CpuRngConfig::validate
validate(cfg) ==
    [cfg EXCEPT !.rdrand_retries = clamp(@, 1, 100),
                !.rdseed_retries = clamp(@, 1, 100),
                !.xstore_quality = clamp(@, 0, 3),
                !.fallback_mix_bytes = clamp(@, 0, 1024),
                !.oversample = clamp(@, 1, 16)]

\* The [cpu_rng] tables explored in a configuration file that parses: each
\* numeric field below, inside and above its range.
FileConfigs ==
    [prefer : {Rdseed}, enable_rdseed : BOOLEAN, enable_rdrand : {TRUE},
     enable_xstore : {TRUE},
     rdrand_retries : {0, 10, 101}, rdseed_retries : {1, 100, 2147483647},
     xstore_quality : {0, 3, 4}, fallback_mix_bytes : {0, 1024, 1025},
     oversample : {0, 16, 17}]

\* What load_config finds at the path it uses: no file, a file it cannot
\* read, a file that is not valid TOML, or a file that parses.
ConfigFiles ==
    {[exists |-> FALSE, read_ok |-> FALSE, parse_ok |-> FALSE, cpu_rng |-> DefaultConfig],
     [exists |-> TRUE, read_ok |-> FALSE, parse_ok |-> FALSE, cpu_rng |-> DefaultConfig],
     [exists |-> TRUE, read_ok |-> TRUE, parse_ok |-> FALSE, cpu_rng |-> DefaultConfig]}
    \cup {[exists |-> TRUE, read_ok |-> TRUE, parse_ok |-> TRUE, cpu_rng |-> c] :
            c \in FileConfigs}

\* The CPU RNG options explored on the command line: none, and three sets of
\* overrides with values outside the ranges.
CpuRngArgs ==
    {NoCpuRngArgs,
     [NoCpuRngArgs EXCEPT !.oversample = Some(0)],
     [NoCpuRngArgs EXCEPT !.oversample = Some(17), !.enable_rdseed = Some(FALSE),
                          !.cpu_rng_prefer = Some(Rdrand)],
     [NoCpuRngArgs EXCEPT !.rdrand_retries = Some(0), !.xstore_quality = Some(4),
                          !.fallback_mix_bytes = Some(2000)]}

\* --duration 307445734561825861: as minutes, one more than fits in a u64 of
\* seconds.
HugeDuration == <<51, 48, 55, 52, 52, 53, 55, 51, 52, 53, 54, 49, 56, 50, 53, 56, 54, 49>>

\* The command lines explored: each command with a valid and an invalid value
\* of the argument it checks, the others at their defaults.
Commands ==
    {[command |-> "generate", bytes |-> b, batch_size |-> 64, duration |-> <<49, 109>>] :
        b \in {0, 32}}
    \cup {[command |-> "daemon", bytes |-> 32, batch_size |-> b, duration |-> <<49, 109>>] :
            b \in {0, 64}}
    \cup {[command |-> "check", bytes |-> 32, batch_size |-> 64, duration |-> d] :
            d \in Durations \cup {HugeDuration}}

Clis ==
    {[command |-> c.command, bytes |-> c.bytes, batch_size |-> c.batch_size,
      duration |-> c.duration, config_file |-> f, cpu_rng |-> a] :
        c \in Commands, f \in BOOLEAN, a \in CpuRngArgs}

\* load_config(explicit_path): the Config, or InvalidArgs.
load_config(explicit, file) ==
    IF explicit /\ ~file.exists THEN [ok |-> FALSE, err |-> ErrInvalidArgs, cpu_rng |-> DefaultConfig]
    ELSE IF ~explicit /\ ~file.exists THEN [ok |-> TRUE, err |-> NoError, cpu_rng |-> DefaultConfig]
    ELSE IF ~file.read_ok THEN [ok |-> FALSE, err |-> ErrInvalidArgs, cpu_rng |-> DefaultConfig]
    ELSE IF ~file.parse_ok THEN [ok |-> FALSE, err |-> ErrInvalidArgs, cpu_rng |-> DefaultConfig]
    ELSE [ok |-> TRUE, err |-> NoError, cpu_rng |-> file.cpu_rng]

\* if let Some(v) = arg { field = v }
override(arg, field) == IF arg # None THEN arg[1] ELSE field

\* build_cpu_rng_config up to cfg.validate(): defaults, file, CLI overrides.
layered(config_file, file, args) ==
    LET loaded == load_config(config_file, file)
        cfg == IF loaded.ok THEN loaded.cpu_rng ELSE DefaultConfig
    IN  [enable_rdseed |-> override(args.enable_rdseed, cfg.enable_rdseed),
         enable_rdrand |-> override(args.enable_rdrand, cfg.enable_rdrand),
         enable_xstore |-> override(args.enable_xstore, cfg.enable_xstore),
         rdrand_retries |-> override(args.rdrand_retries, cfg.rdrand_retries),
         rdseed_retries |-> override(args.rdseed_retries, cfg.rdseed_retries),
         xstore_quality |-> override(args.xstore_quality, cfg.xstore_quality),
         prefer |-> override(args.cpu_rng_prefer, cfg.prefer),
         fallback_mix_bytes |-> override(args.fallback_mix_bytes, cfg.fallback_mix_bytes),
         oversample |-> override(args.oversample, cfg.oversample)]

\* main after Cli::parse.
MainInit ==
    /\ m_pc = "start"
    /\ m_cli \in Clis
    /\ m_file \in ConfigFiles
    /\ m_raw = DefaultConfig
    /\ m_cfg = DefaultConfig
    /\ m_warned = FALSE
    /\ m_ran = "none"
    /\ m_exit = 0
    /\ SHUTDOWN = FALSE
    /\ GenIdle
    /\ DaemonIdle
    /\ PoolIdle
    /\ CheckIdle
    /\ FunIdle

MainFrame == UNCHANGED <<genVars, daemonVars, poolVars, checkVars, funVars, SHUTDOWN>>

\* build_cpu_rng_config: a load_config error is logged as a warning and the
\* defaults are used.
BuildConfig ==
    /\ m_pc = "start"
    /\ m_warned' = ~load_config(m_cli.config_file, m_file).ok
    /\ m_raw' = layered(m_cli.config_file, m_file, m_cli.cpu_rng)
    /\ m_cfg' = validate(layered(m_cli.config_file, m_file, m_cli.cpu_rng))
    /\ m_pc' = "dispatch"
    /\ UNCHANGED <<m_cli, m_file, m_ran, m_exit>>
    /\ MainFrame

\* run_generate: the byte count check, entropy::generate and write_output.
RunGenerate ==
    /\ m_pc = "dispatch"
    /\ m_cli.command = "generate"
    /\ IF m_cli.bytes = 0
       THEN m_ran' = "none" /\ m_exit' = 1
       ELSE /\ m_ran' = "generate"
            /\ \E generated \in BOOLEAN, written \in BOOLEAN :
                 m_exit' = IF generated /\ written THEN 0 ELSE 1
    /\ m_pc' = "exited"
    /\ UNCHANGED <<m_cli, m_file, m_raw, m_cfg, m_warned>>
    /\ MainFrame

\* Command::Daemon: daemon::run returns InvalidArgs for a zero batch size, an
\* I/O error when /dev/random cannot be opened for writing, and Ok(()) once
\* its loop has ended.
RunDaemon ==
    /\ m_pc = "dispatch"
    /\ m_cli.command = "daemon"
    /\ IF m_cli.batch_size = 0
       THEN m_ran' = "none" /\ m_exit' = 1
       ELSE \E open_ok \in BOOLEAN :
              IF open_ok THEN m_ran' = "daemon" /\ m_exit' = 0
              ELSE m_ran' = "none" /\ m_exit' = 1
    /\ m_pc' = "exited"
    /\ UNCHANGED <<m_cli, m_file, m_raw, m_cfg, m_warned>>
    /\ MainFrame

\* Command::Check: check::run returns InvalidArgs for a bad duration before it
\* probes, NoEntropy when no source survives, and Ok(()) after the report; a
\* panic of parse_duration ends the process with code 101.
RunCheck ==
    /\ m_pc = "dispatch"
    /\ m_cli.command = "check"
    /\ IF ~parse_duration(m_cli.duration).ok
       THEN m_ran' = "none" /\ m_exit' = 1
       ELSE \E overflow_checks \in BOOLEAN :
              IF parse_duration(m_cli.duration).overflow /\ overflow_checks
              THEN m_ran' = "none" /\ m_exit' = 101
              ELSE /\ m_ran' = "check"
                   /\ \E survivors \in BOOLEAN : m_exit' = IF survivors THEN 0 ELSE 1
    /\ m_pc' = "exited"
    /\ UNCHANGED <<m_cli, m_file, m_raw, m_cfg, m_warned>>
    /\ MainFrame

MainNext == BuildConfig \/ RunGenerate \/ RunDaemon \/ RunCheck

SpecMain == MainInit /\ [][MainNext]_vars

\* ------------------------------------------- parse_duration alone (check.rs)

\* The --duration strings explored, by their parts: white space, a sign, the
\* number, the suffix, white space.  The numbers include the largest u64, the
\* next integer, 2^62, and for each multiplier the largest N whose product
\* fits in a u64 and the next one.
DurationNumbers ==
    {<< >>, <<48>>, <<48, 48>>, <<49>>, <<53>>, <<51, 48>>, <<57, 48>>, <<48, 48, 55>>,
     <<120>>, <<49, 120>>,
     <<49, 56, 52, 52, 54, 55, 52, 52, 48, 55, 51, 55, 48, 57, 53, 53, 49, 54, 49, 53>>,
     <<49, 56, 52, 52, 54, 55, 52, 52, 48, 55, 51, 55, 48, 57, 53, 53, 49, 54, 49, 54>>,
     <<51, 48, 55, 52, 52, 53, 55, 51, 52, 53, 54, 49, 56, 50, 53, 56, 54, 48>>,
     <<51, 48, 55, 52, 52, 53, 55, 51, 52, 53, 54, 49, 56, 50, 53, 56, 54, 49>>,
     <<53, 49, 50, 52, 48, 57, 53, 53, 55, 54, 48, 51, 48, 52, 51, 49>>,
     <<53, 49, 50, 52, 48, 57, 53, 53, 55, 54, 48, 51, 48, 52, 51, 50>>,
     <<50, 49, 51, 53, 48, 51, 57, 56, 50, 51, 51, 52, 54, 48, 49>>,
     <<50, 49, 51, 53, 48, 51, 57, 56, 50, 51, 51, 52, 54, 48, 50>>,
     <<52, 54, 49, 49, 54, 56, 54, 48, 49, 56, 52, 50, 55, 51, 56, 55, 57, 48, 52>>}

\* "", "s", "m", "h", "d", "x", "S"
DurationSuffixes == {<< >>, <<115>>, <<109>>, <<104>>, <<100>>, <<120>>, <<83>>}

DurationInputs ==
    [before : {<< >>, <<32>>}, sign : {<< >>, <<45>>}, number : DurationNumbers,
     suffix : DurationSuffixes, after : {<< >>, <<10>>}, overflow_checks : BOOLEAN]

DurationString(in) == in.before \o in.sign \o in.number \o in.suffix \o in.after

DurationInit ==
    /\ f_pc = "call"
    /\ f_in \in DurationInputs
    /\ f_out = << >>
    /\ AllIdle

\* let duration = parse_duration(&args.duration): a result, or a panic where
\* the build checks arithmetic overflow.
ParseDuration ==
    /\ f_pc = "call"
    /\ LET r == parse_duration(DurationString(f_in))
       IN  f_out' = IF r.ok /\ r.overflow /\ f_in.overflow_checks
                    THEN [panicked |-> TRUE, ok |-> FALSE, secs |-> U64(0), err |-> NoError]
                    ELSE [panicked |-> FALSE, ok |-> r.ok, secs |-> r.secs, err |-> r.err]
    /\ f_pc' = "done"
    /\ UNCHANGED f_in
    /\ FunFrame

DurationNext == ParseDuration

SpecDuration == DurationInit /\ [][DurationNext]_vars

\* ------------------------------------------------- mix_entropy alone (mixer.rs)

\* Longest label and longest data explored, and the most pairs in a list.
MixLen == 1
MixPairs == 2

\* The byte values explored in labels and data: the values that also occur in
\* the length prefixes.
MixAlphabet == {0, 1}

\* b"mixrand-entropy-v1"
MixTag == <<109, 105, 120, 114, 97, 110, 100, 45, 101, 110, 116, 114, 111, 112, 121, 45,
            118, 49>>

MixStrings == UNION {[1..n -> MixAlphabet] : n \in 0..MixLen}

\* The lists of (label, data) pairs explored.
MixLists == UNION {[1..n -> MixStrings \X MixStrings] : n \in 0..MixPairs}

\* (len as u64).to_le_bytes()
to_le_bytes(len) == U64(len)

\* The bytes fed to the hasher with the two length prefixes left out.
RECURSIVE hasher_updates_unframed(_)
hasher_updates_unframed(inputs) ==
    IF inputs = << >> THEN << >>
    ELSE Head(inputs)[1] \o Head(inputs)[2] \o hasher_updates_unframed(Tail(inputs))

\* The bytes the for loop feeds to the hasher, in order.
RECURSIVE hasher_updates(_)
hasher_updates(inputs) ==
    IF inputs = << >> THEN << >>
    ELSE LET label_bytes == Head(inputs)[1]
             data == Head(inputs)[2]
         IN  to_le_bytes(Len(label_bytes)) \o label_bytes
             \o to_le_bytes(Len(data)) \o data
             \o hasher_updates(Tail(inputs))

\* BLAKE2b-256 is a library function: the digest of a byte stream is kept as
\* the term Blake2b256(stream), so two digests are equal exactly when the
\* streams are (collisions are not modelled).
Blake2b256(stream) == [blake2b256 |-> stream]

\* mix_entropy: the seed.
mix_entropy(inputs) == Blake2b256(MixTag \o hasher_updates(inputs))

MixInit ==
    /\ f_pc = "call"
    /\ f_in \in MixLists
    /\ f_out = << >>
    /\ AllIdle

\* let seed = mix_entropy(inputs)
Mix ==
    /\ f_pc = "call"
    /\ f_out' = mix_entropy(f_in)
    /\ f_pc' = "done"
    /\ UNCHANGED f_in
    /\ FunFrame

MixNext == Mix

SpecMix == MixInit /\ [][MixNext]_vars

\* ------------------------------------------------------------------ csprng
\* csprng.rs: generate(seed, count) builds a fresh ChaCha20Rng from the seed,
\* allocates vec![0u8; count] and lets the generator fill it.  The generator
\* is the block-buffered one of rand_chacha: it produces the ChaCha20
\* keystream (zero nonce, counter from 0) one buffer of 64 32-bit words at a
\* time and hands the words out little-endian.  The cipher itself is kept
\* as a term: byte b of keystream word w under a seed is <<seed, w, b>>.

\* Number of 32-bit words the generator produces per refill.
ChaChaBufferWords == 64

ExpandSeeds == {"seedA", "seedB"}

\* Requested lengths: empty, inside a word, on and around a word boundary,
\* on and around a buffer boundary.
ExpandCounts == {0, 1, 3, 4, 5, 255, 256, 257, 260}

keystream_byte(seed, w, b) == <<seed, w, b>>

\* ChaCha20Rng::from_seed(seed): nothing generated yet, the buffer counts as
\* used up (index = its length).
from_seed(seed) == [seed |-> seed, generated |-> 0, index |-> ChaChaBufferWords]

\* rng.fill_bytes(dest): while dest is not full, refill the buffer when it
\* is used up, copy as many bytes as fit from the unread words, and advance
\* the word index past every word that was touched (a partly copied word is
\* used up too).
RECURSIVE fill_bytes(_, _, _)
fill_bytes(rng, dest_len, dest) ==
    IF Len(dest) >= dest_len THEN [rng |-> rng, buf |-> dest]
    ELSE
        LET r == IF rng.index >= ChaChaBufferWords
                 THEN [rng EXCEPT !.generated = @ + 1, !.index = 0]
                 ELSE rng
            first_word == (r.generated - 1) * ChaChaBufferWords + r.index
            filled_u8 == Min(dest_len - Len(dest),
                             4 * (ChaChaBufferWords - r.index))
            consumed_u32 == (filled_u8 + 3) \div 4
            chunk == [t \in 1..filled_u8 |->
                        keystream_byte(r.seed, first_word + (t - 1) \div 4,
                                       (t - 1) % 4)]
        IN fill_bytes([r EXCEPT !.index = @ + consumed_u32], dest_len,
                      dest \o chunk)

\* Variant: the buffer is sized in whole 32-bit words.
generate_whole_words(seed, count) ==
    fill_bytes(from_seed(seed), 4 * ((count + 3) \div 4), << >>).buf

\* pub fn generate(seed: [u8; 32], count: usize) -> Vec<u8>
generate(seed, count) ==
    fill_bytes(from_seed(seed), count, << >>).buf

ExpandInit ==
    /\ f_pc = "call"
    /\ f_in \in [seed : ExpandSeeds, n : ExpandCounts, k : ExpandCounts]
    /\ f_out = << >>
    /\ AllIdle

\* Two calls on the same seed: generate(s, n) and generate(s, n + k).
Expand ==
    /\ f_pc = "call"
    /\ f_out' = [short |-> generate(f_in.seed, f_in.n),
                 long |-> generate(f_in.seed, f_in.n + f_in.k)]
    /\ f_pc' = "done"
    /\ UNCHANGED f_in
    /\ FunFrame

ExpandNext == Expand

SpecExpand == ExpandInit /\ [][ExpandNext]_vars

\* ------------------------------------------------------------ zeroization
\* The buffers of generate_fallback (fallback.rs) and of
\* collect_cpu_entropy_standalone (cpurng.rs) with their contents, as they
\* are when the function returns.  A local that was never created is None.

\* The byte a source delivers; a source may deliver zero bytes by chance.
SourceBytes == {0, 255}

\* A buffer of len bytes, all of value byte.
Filled(len, byte) == [i \in 1..len |-> byte]

\* zeroize_bytes: write_volatile(byte, 0) for every byte of the slice.
zeroize_bytes(buf) == [i \in 1..Len(buf) |-> 0]

\* zeroize_vec: zeroize_bytes(buf.as_mut_slice()).
zeroize_vec(buf) == zeroize_bytes(buf)

\* What File::open("/dev/urandom")?.read_exact(&mut urandom_seed)? meets.  On
\* a failed read_exact the number of bytes already placed in the buffer is
\* unspecified.
UrandomReads ==
    {[open |-> FALSE, read |-> FALSE, partial |-> 0]}
    \cup [open : {TRUE}, read : {FALSE}, partial : {0, 1, 31}]
    \cup {[open |-> TRUE, read |-> TRUE, partial |-> 32]}

\* The CPU either serves every instruction or none.
ZeroCpus == {[i \in Instr |-> b] : b \in BOOLEAN}

ZeroConfigs ==
    {c \in CpuRngConfigs :
        /\ c.prefer = Rdseed
        /\ c.enable_rdrand = c.enable_rdseed
        /\ c.enable_xstore = c.enable_rdseed}

NoLocals ==
    [urandom_seed |-> None, interrupts |-> None, stat |-> None,
     diskstats |-> None, jitter |-> None, cpu_entropy |-> None,
     raw_bytes |-> None, seed |-> None]

\* generate_fallback(count, config), line by line: the result, the locals
\* before the zeroize calls (pre), the locals at the return, and the number
\* of csprng::generate calls made with the seed.
fallback_run(count, config, ur, proc, cpu, byte) ==
    LET urandom_seed0 == Filled(32, 0)
    IN  IF ~ur.open
        THEN [result |-> Err(ErrIo), expansions |-> 0,
              pre |-> [NoLocals EXCEPT !.urandom_seed = Some(urandom_seed0)],
              locals |-> [NoLocals EXCEPT !.urandom_seed = Some(urandom_seed0)]]
        ELSE IF ~ur.read
        THEN LET urandom_seed == Filled(ur.partial, byte) \o Filled(32 - ur.partial, 0)
             IN  [result |-> Err(ErrIo), expansions |-> 0,
                  pre |-> [NoLocals EXCEPT !.urandom_seed = Some(urandom_seed)],
                  locals |-> [NoLocals EXCEPT !.urandom_seed = Some(urandom_seed)]]
        ELSE LET urandom_seed == Filled(32, byte)
                 interrupts == Filled(read_interrupts(proc.interrupts), byte)
                 stat == Filled(read_stat(proc.stat), byte)
                 diskstats == Filled(read_diskstats(proc.diskstats), byte)
                 jitter == Filled(collect_jitter_samples(64), byte)
                 cpu_entropy ==
                     Filled(collect_cpu_entropy_best_effort(config.fallback_mix_bytes,
                                                            config, cpu), byte)
                 seed == Filled(32, byte)
             IN  [result |-> Ok(count), expansions |-> 1,
                  pre |-> [urandom_seed |-> Some(urandom_seed),
                           interrupts |-> Some(interrupts), stat |-> Some(stat),
                           diskstats |-> Some(diskstats), jitter |-> Some(jitter),
                           cpu_entropy |-> Some(cpu_entropy),
                           raw_bytes |-> None, seed |-> Some(seed)],
                  locals |-> [urandom_seed |-> Some(zeroize_bytes(urandom_seed)),
                              interrupts |-> Some(zeroize_vec(interrupts)),
                              stat |-> Some(zeroize_vec(stat)),
                              diskstats |-> Some(zeroize_vec(diskstats)),
                              jitter |-> Some(zeroize_vec(jitter)),
                              cpu_entropy |-> Some(zeroize_vec(cpu_entropy)),
                              raw_bytes |-> None,
                              seed |-> Some(zeroize_bytes(seed))]]

\* collect_cpu_entropy_standalone(count, config), line by line.  With
\* oversample > 1 the raw bytes are mixed into a seed and expanded; the only
\* zeroize call is zeroize_vec(&mut raw_bytes).
standalone_run(count, config, cpu, byte) ==
    IF config.oversample <= 1
    THEN [result |-> collect_cpu_entropy(count, config, cpu), expansions |-> 0,
          pre |-> NoLocals, locals |-> NoLocals]
    ELSE LET result == collect_cpu_entropy(count * config.oversample, config, cpu)
         IN  IF ~result.ok
             THEN [result |-> result, expansions |-> 0,
                   pre |-> NoLocals, locals |-> NoLocals]
             ELSE LET raw_bytes == Filled(result.len, byte)
                      seed == Filled(32, byte)
                  IN  [result |-> [result EXCEPT !.len = count], expansions |-> 1,
                       pre |-> [NoLocals EXCEPT !.raw_bytes = Some(raw_bytes),
                                                !.seed = Some(seed)],
                       locals |-> [NoLocals EXCEPT
                                      !.raw_bytes = Some(zeroize_vec(raw_bytes)),
                                      !.seed = Some(seed)]]

NoProc == [interrupts |-> [ok |-> FALSE, len |-> 0], stat |-> [ok |-> FALSE, len |-> 0],
           diskstats |-> [ok |-> FALSE, len |-> 0]]

ZeroInit ==
    /\ f_pc = "call"
    /\ f_in \in
          [fn : {"generate_fallback"}, count : 0..MaxCount, config : ZeroConfigs,
           ur : UrandomReads,
           proc : [interrupts : ProcRead, stat : ProcRead, diskstats : ProcRead],
           cpu : ZeroCpus, byte : SourceBytes]
          \cup
          [fn : {"collect_cpu_entropy_standalone"}, count : 0..MaxCount,
           config : ZeroConfigs,
           ur : {[open |-> FALSE, read |-> FALSE, partial |-> 0]},
           proc : {NoProc}, cpu : ZeroCpus, byte : SourceBytes]
    /\ f_out = << >>
    /\ AllIdle

RunFallback ==
    /\ f_pc = "call"
    /\ f_in.fn = "generate_fallback"
    /\ f_out' = fallback_run(f_in.count, f_in.config, f_in.ur, f_in.proc,
                             f_in.cpu, f_in.byte)
    /\ f_pc' = "done"
    /\ UNCHANGED f_in
    /\ FunFrame

RunStandalone ==
    /\ f_pc = "call"
    /\ f_in.fn = "collect_cpu_entropy_standalone"
    /\ f_out' = standalone_run(f_in.count, f_in.config, f_in.cpu, f_in.byte)
    /\ f_pc' = "done"
    /\ UNCHANGED f_in
    /\ FunFrame

ZeroNext == RunFallback \/ RunStandalone

SpecZero == ZeroInit /\ [][ZeroNext]_vars

\* ------------------------------------------------------------ both loops
\* The process runs one command: the daemon loop (daemon.rs) or the check
\* loop (check.rs), each with its own SHUTDOWN static and signal handler.

LoopsInit == DaemonInit \/ CheckInit

LoopsNext == DaemonNext \/ CheckNext

SpecLoops == LoopsInit /\ [][LoopsNext]_vars

\* ------------------------------------------------------ fips_runs (stats.rs)
\* fips_runs(data: &[u8; 2500]), one step per byte of the outer loop.

\* A 2500-byte input: bytes 0..switch-1 repeat the period `first`, the bytes
\* from switch on repeat the period `rest`, and the last byte is `tail` when
\* one is given.
\* 128 bits holding, for each bit value, 16 runs of length 1, 8 of 2, 4 of 3,
\* 2 of 4, one of 5 and one of 7.
BalancedPeriod ==
    <<10, 80, 215, 205, 110, 145, 230, 140, 89, 198, 127, 123, 149, 1, 218, 9>>

\* 128 bits with two 0-runs of length 5 and no 0-run longer than 5.
SkewedPeriod ==
    <<123, 195, 159, 46, 218, 57, 255, 34, 83, 69, 58, 11, 83, 91, 8, 35>>

RunsInputs ==
    [first : {<<0>>, <<255>>, <<170>>, <<15>>, <<0, 255>>, BalancedPeriod},
     switch : {FipsBytes}, rest : {<<0>>},
     tail : {None, Some(1), Some(128)}]
    \cup
    [first : {BalancedPeriod}, switch : {16 * 102, 16 * 103, 16 * 104},
     rest : {SkewedPeriod}, tail : {None}]

\* data[i], i from 0.
data_at(in, i) ==
    IF in.tail # None /\ i = FipsBytes - 1 THEN in.tail[1]
    ELSE IF i < in.switch THEN in.first[(i % Len(in.first)) + 1]
    ELSE in.rest[(i % Len(in.rest)) + 1]

\* let lower: [u32; 6] / let upper: [u32; 6]
lower == <<2315, 1114, 527, 240, 103, 103>>
upper == <<2685, 1386, 723, 384, 209, 209>>

\* Variant: the bucket is the run length itself, capped at 5.
bucket_of_len(run_len) == Min(run_len, 5)

\* ((run_len as usize) - 1).min(5)
bucket(run_len) == Min(run_len - 1, 5)

\* The counter update at a run's end.  run_len = 0 would make the
\* subtraction underflow (a panic with overflow checks, else a wrap to
\* usize::MAX and bucket 5); the locals remember that it happened.
record_run(st) ==
    LET b == IF st.run_len = 0 THEN 5 ELSE bucket(st.run_len)
        st1 == [st EXCEPT !.underflow = @ \/ st.run_len = 0]
    IN  IF st.current_bit = 0
        THEN [st1 EXCEPT !.runs_0[b + 1] = @ + 1]
        ELSE [st1 EXCEPT !.runs_1[b + 1] = @ + 1]

\* The body of the inner loop for one bit.
scan_bit(st, bit) ==
    IF bit = st.current_bit
    THEN [st EXCEPT !.run_len = @ + 1]
    ELSE [record_run(st) EXCEPT !.current_bit = bit, !.run_len = 1]

\* for bit_pos in (0..8).rev() { let bit = (byte >> bit_pos) & 1; ... }
RECURSIVE scan_byte(_, _, _)
scan_byte(st, byte, bit_pos) ==
    IF bit_pos < 0 THEN st
    ELSE scan_byte(scan_bit(st, (byte \div 2 ^ bit_pos) % 2), byte, bit_pos - 1)

in_bounds(runs, i) == runs[i] >= lower[i] /\ runs[i] <= upper[i]

\* The final loop over the 6 categories: all_passed.
runs_all_passed(st) ==
    \A i \in 1..6 : in_bounds(st.runs_0, i) /\ in_bounds(st.runs_1, i)

\* passed_count.
runs_passed_count(st) ==
    Cardinality({i \in 1..6 : in_bounds(st.runs_0, i)})
    + Cardinality({i \in 1..6 : in_bounds(st.runs_1, i)})

RunsInit ==
    /\ f_pc = "call"
    /\ f_in \in RunsInputs
    /\ f_out = << >>
    /\ AllIdle

\* The declarations before the loop.
RunsStart ==
    /\ f_pc = "call"
    /\ f_out' = [i |-> 0, runs_0 |-> <<0, 0, 0, 0, 0, 0>>, runs_1 |-> <<0, 0, 0, 0, 0, 0>>,
                 current_bit |-> (data_at(f_in, 0) \div 2 ^ 7) % 2, run_len |-> 0,
                 underflow |-> FALSE, passed |-> FALSE, value |-> 0]
    /\ f_pc' = "scan"
    /\ UNCHANGED f_in
    /\ FunFrame

\* One pass of `for &byte in data.iter()`.
RunsByte ==
    /\ f_pc = "scan"
    /\ f_out.i < FipsBytes
    /\ f_out' = [scan_byte(f_out, data_at(f_in, f_out.i), 7) EXCEPT !.i = @ + 1]
    /\ UNCHANGED <<f_pc, f_in>>
    /\ FunFrame

\* After the loop: record the last run, compare the 12 counters.
RunsFinish ==
    /\ f_pc = "scan"
    /\ f_out.i = FipsBytes
    /\ LET st == record_run(f_out)
       IN  f_out' = [st EXCEPT !.passed = runs_all_passed(st),
                               !.value = runs_passed_count(st)]
    /\ f_pc' = "done"
    /\ UNCHANGED f_in
    /\ FunFrame

RunsNext == RunsStart \/ RunsByte \/ RunsFinish

SpecRuns == RunsInit /\ [][RunsNext]_vars

\* ------------------------------------------------- fips_long_runs (stats.rs)
\* fips_long_runs(data: &[u8; 2500]), one step per byte of the outer loop.

\* Inputs: constant and alternating bytes, the balanced pattern, zero runs of
\* 25 and of 26 bits inside the data, and runs of 24, 25, 26 and 32 bits that
\* are the first or the last run.
LongRunsInputs ==
    [first : {<<0>>, <<255>>, <<170>>, BalancedPeriod, <<85, 0, 0, 0>>, <<86, 0, 0, 0>>},
     switch : {FipsBytes}, rest : {<<0>>}, tail : {None}]
    \cup
    [first : {<<170>>, <<85>>, <<43>>}, switch : {FipsBytes - 4, FipsBytes - 3},
     rest : {<<255>>}, tail : {None}]
    \cup
    [first : {<<0>>}, switch : {3, 4}, rest : {<<170>>, <<85>>}, tail : {None, Some(1)}]

\* u32::max
max(a, b) == IF a >= b THEN a ELSE b

\* The body of the inner loop for one bit.
long_scan_bit(st, bit) ==
    IF bit = st.current_bit
    THEN [st EXCEPT !.run_len = @ + 1]
    ELSE [st EXCEPT !.max_run = max(@, st.run_len), !.current_bit = bit, !.run_len = 1]

\* for bit_pos in (0..8).rev() { let bit = (byte >> bit_pos) & 1; ... }
RECURSIVE long_scan_byte(_, _, _)
long_scan_byte(st, byte, bit_pos) ==
    IF bit_pos < 0 THEN st
    ELSE long_scan_byte(long_scan_bit(st, (byte \div 2 ^ bit_pos) % 2), byte, bit_pos - 1)

\* Variant: the run still open at the end of the data is not compared.
final_max_dropped(st) == st.max_run

\* max_run = max_run.max(run_len) after the loop.
final_max(st) == max(st.max_run, st.run_len)

LongRunsInit ==
    /\ f_pc = "call"
    /\ f_in \in LongRunsInputs
    /\ f_out = << >>
    /\ AllIdle

\* The declarations before the loop.
LongRunsStart ==
    /\ f_pc = "call"
    /\ f_out' = [i |-> 0, max_run |-> 0,
                 current_bit |-> (data_at(f_in, 0) \div 2 ^ 7) % 2, run_len |-> 0,
                 passed |-> FALSE, value |-> 0]
    /\ f_pc' = "scan"
    /\ UNCHANGED f_in
    /\ FunFrame

\* One pass of `for &byte in data.iter()`.
LongRunsByte ==
    /\ f_pc = "scan"
    /\ f_out.i < FipsBytes
    /\ f_out' = [long_scan_byte(f_out, data_at(f_in, f_out.i), 7) EXCEPT !.i = @ + 1]
    /\ UNCHANGED <<f_pc, f_in>>
    /\ FunFrame

\* After the loop: the last run, passed = max_run <= 25, value = max_run.
LongRunsFinish ==
    /\ f_pc = "scan"
    /\ f_out.i = FipsBytes
    /\ LET max_run == final_max(f_out)
       IN  f_out' = [f_out EXCEPT !.max_run = max_run, !.passed = max_run <= 25,
                                  !.value = max_run]
    /\ f_pc' = "done"
    /\ UNCHANGED f_in
    /\ FunFrame

LongRunsNext == LongRunsStart \/ LongRunsByte \/ LongRunsFinish

SpecLongRuns == LongRunsInit /\ [][LongRunsNext]_vars

\* ------------------------------------------- collect_cpu_entropy, in detail
\* collect_cpu_entropy with the error messages and the instructions it
\* executes, in the order it executes them.

\* What an instruction does when it is tried: it is absent from the CPU, it
\* gives up (retries exhausted, or XSTORE reporting failure), or it delivers.
CpuOutcomes == {"unsupported", "failed", "ok"}

MsgAllDisabled == "all CPU RNG instructions are disabled"
MsgNoneSucceeded == "no CPU RNG instruction succeeded"

\* collect_rdseed / collect_rdrand / collect_xstore behind try_instruction:
\* Ok((bytes, label)) or the NoEntropy error of the instruction.
try_instruction_msg(pref, count, outcome) ==
    IF outcome = "ok"
    THEN [ok |-> TRUE, len |-> count, label |-> pref, msg |-> ""]
    ELSE [ok |-> FALSE, len |-> 0, label |-> "",
          msg |-> IF outcome = "unsupported" THEN <<pref, "not supported on this CPU">>
                  ELSE <<pref, "failed">>]

\* Variant: the loop gives up after the first instruction of the order.
cpu_loop_msg_first_only(order, i, count, cpu, last_err, tried) ==
    LET r == try_instruction_msg(order[i], count, cpu[order[i]])
    IN  IF r.ok
        THEN [ok |-> TRUE, len |-> r.len, label |-> r.label, msg |-> "",
              executed |-> Append(tried, order[i])]
        ELSE [ok |-> FALSE, len |-> 0, label |-> "", msg |-> r.msg,
              executed |-> Append(tried, order[i])]

\* for pref in order { match try_instruction(..) { Ok => return, Err(e) =>
\* last_err = Some(e) } }, from position i; tried lists the instructions
\* executed so far.
RECURSIVE cpu_loop_msg(_, _, _, _, _, _)
cpu_loop_msg(order, i, count, cpu, last_err, tried) ==
    IF i > Len(order)
    THEN [ok |-> FALSE, len |-> 0, label |-> "",
          msg |-> IF last_err = None THEN MsgNoneSucceeded ELSE last_err[1],
          executed |-> tried]
    ELSE LET r == try_instruction_msg(order[i], count, cpu[order[i]])
         IN  IF r.ok
             THEN [ok |-> TRUE, len |-> r.len, label |-> r.label, msg |-> "",
                   executed |-> Append(tried, order[i])]
             ELSE cpu_loop_msg(order, i + 1, count, cpu, Some(r.msg),
                               Append(tried, order[i]))

\* pub fn collect_cpu_entropy(count, config) -> Result<CpuRngResult, Error>
collect_cpu_entropy_msg(count, config, cpu) ==
    LET order == instruction_order(config)
    IN  IF order = << >>
        THEN [ok |-> FALSE, len |-> 0, label |-> "", msg |-> MsgAllDisabled,
              executed |-> << >>]
        ELSE cpu_loop_msg(order, 1, count, cpu, None, << >>)

\* collect_cpu_entropy(count, config).map(|r| r.bytes).unwrap_or_default():
\* each byte is written as the instruction that produced it.
collect_cpu_entropy_best_effort_msg(count, config, cpu) ==
    LET r == collect_cpu_entropy_msg(count, config, cpu)
    IN  IF r.ok THEN [i \in 1..r.len |-> r.label] ELSE << >>

OrderInit ==
    /\ f_pc = "call"
    /\ f_in \in [count : 0..MaxCount,
                 config : [prefer : Instr, enable_rdseed : BOOLEAN,
                           enable_rdrand : BOOLEAN, enable_xstore : BOOLEAN],
                 cpu : [Instr -> CpuOutcomes]]
    /\ f_out = << >>
    /\ AllIdle

\* One call of collect_cpu_entropy; the order it computed is kept beside the
\* result.
CollectCpu ==
    /\ f_pc = "call"
    /\ f_out' = [order |-> instruction_order(f_in.config),
                 result |-> collect_cpu_entropy_msg(f_in.count, f_in.config, f_in.cpu)]
    /\ f_pc' = "done"
    /\ UNCHANGED f_in
    /\ FunFrame

OrderNext == CollectCpu

SpecOrder == OrderInit /\ [][OrderNext]_vars

\* generate_fallback, lines 29-41: the best-effort CPU entropy and the
\* ("cpu-rng", &cpu_entropy) pair handed to the mixer.
CpuMixInit ==
    /\ f_pc = "call"
    /\ f_in \in [config : [prefer : Instr, enable_rdseed : BOOLEAN,
                           enable_rdrand : BOOLEAN, enable_xstore : BOOLEAN,
                           fallback_mix_bytes : {0, MixBytes}],
                 cpu : [Instr -> CpuOutcomes]]
    /\ f_out = << >>
    /\ AllIdle

CpuMixInput ==
    /\ f_pc = "call"
    /\ LET cpu_entropy ==
               collect_cpu_entropy_best_effort_msg(f_in.config.fallback_mix_bytes,
                                                   f_in.config, f_in.cpu)
       IN  f_out' = <<"cpu-rng", cpu_entropy>>
    /\ f_pc' = "done"
    /\ UNCHANGED f_in
    /\ FunFrame

CpuMixNext == CpuMixInput

SpecCpuMix == CpuMixInit /\ [][CpuMixNext]_vars

\* ---------------------------------------------------- haveged (haveged.rs)
\* read_haveged step by step.  Text is a sequence of character codes.

StrHaveged == <<104, 97, 118, 101, 103, 101, 100>>

\* A /proc entry: its file name and what reading its comm file gives
\* (None when the read fails).
ProcEntries ==
    {[name |-> <<52>>, comm |-> Some(StrHaveged \o <<10>>)],
     [name |-> <<115, 101, 108, 102>>, comm |-> Some(StrHaveged \o <<10>>)],
     [name |-> <<52, 97>>, comm |-> Some(StrHaveged \o <<10>>)],
     [name |-> <<49, 50>>, comm |-> Some(StrHaveged \o <<32, 10>>)],
     [name |-> <<55>>, comm |-> Some(StrHaveged \o <<120, 10>>)],
     [name |-> <<55>>, comm |-> Some(<<98, 97, 115, 104, 10>>)],
     [name |-> <<55>>, comm |-> None]}

\* fs::read_dir("/proc"): None when it fails, else the entries in order.
ProcListings ==
    {None, Some(<< >>)}
    \cup {Some(<<a>>) : a \in ProcEntries}
    \cup {Some(<<a, b>>) : a, b \in ProcEntries}

\* fs::read_to_string(".../entropy_avail"): None when it fails.
AvailContents ==
    {None, Some(<<49, 48, 50, 52, 10>>), Some(<<49, 48, 50, 51, 10>>),
     Some(<<52, 48, 57, 54>>), Some(<<32, 49, 48, 50, 52, 32>>),
     Some(<<97, 98, 99, 10>>), Some(<< >>),
     Some(<<57, 57, 57, 57, 57, 57, 57, 57, 57, 57, 57, 10>>),
     Some(<<43, 50, 48, 48, 48, 10>>)}

is_ascii_digit(c) == c \in 48..57

\* Variant: the directory name is not checked.
is_haveged_running_any_dir(proc) ==
    /\ proc # None
    /\ \E k \in 1..Len(proc[1]) :
          /\ proc[1][k].comm # None
          /\ trim(proc[1][k].comm[1]) = StrHaveged

\* fn is_haveged_running() -> bool
is_haveged_running(proc) ==
    /\ proc # None
    /\ \E k \in 1..Len(proc[1]) :
          /\ \A j \in 1..Len(proc[1][k].name) : is_ascii_digit(proc[1][k].name[j])
          /\ proc[1][k].comm # None
          /\ trim(proc[1][k].comm[1]) = StrHaveged

\* str::parse::<u32>: the value as 4 digits, or failure.
parse_u32(s) ==
    LET r == parse_u64(s)
    IN  IF r.ok /\ IsZero(SubSeq(r.value, 5, 8))
        THEN [ok |-> TRUE, value |-> as_u32(r.value)]
        ELSE [ok |-> FALSE, value |-> U32(0)]

\* value >= 1024 on a u32 given by its digits.
ge_1024(d) == d[2] >= 4 \/ d[3] > 0 \/ d[4] > 0

\* fn has_sufficient_entropy() -> bool: s.trim().parse::<u32>().unwrap_or(0) >= 1024
has_sufficient_entropy(avail) ==
    /\ avail # None
    /\ LET r == parse_u32(trim(avail[1]))
       IN  ge_1024(IF r.ok THEN r.value ELSE U32(0))

HavegedInit ==
    /\ f_pc = "call"
    /\ f_in \in [count : 0..MaxCount, proc : ProcListings, avail : AvailContents]
    /\ f_out = << >>
    /\ AllIdle

HavegedReturn(st, result) ==
    /\ f_out' = [st EXCEPT !.result = result]
    /\ f_pc' = "done"

\* From the entry to the first loop test: the two checks, the open, the
\* buffer and the deadline.
HavegedOpen ==
    /\ f_pc = "call"
    /\ LET st == [opened |-> FALSE, filled |-> 0, expired |-> FALSE, ret |-> 1,
                  n |-> None, result |-> Err(NoError)]
       IN  IF ~is_haveged_running(f_in.proc) THEN HavegedReturn(st, Err(ErrNoEntropy))
           ELSE IF ~has_sufficient_entropy(f_in.avail)
           THEN HavegedReturn(st, Err(ErrNoEntropy))
           ELSE \E open_ok \in BOOLEAN :
                  IF ~open_ok THEN HavegedReturn(st, Err(ErrNoEntropy))
                  ELSE /\ f_out' = [st EXCEPT !.opened = TRUE]
                       /\ f_pc' = "loop"
    /\ UNCHANGED f_in
    /\ FunFrame

\* while filled < count { remaining_ms ...; if remaining_ms <= 0 { return Err } }
\* and Ok(buf) after the loop.
HavegedLoop ==
    /\ f_pc = "loop"
    /\ IF f_out.filled < f_in.count
       THEN IF f_out.expired
            THEN HavegedReturn(f_out, Err(ErrNoEntropy))
            ELSE /\ f_pc' = "poll"
                 /\ f_out' = f_out
       ELSE HavegedReturn(f_out, Ok(f_out.filled))
    /\ UNCHANGED f_in
    /\ FunFrame

\* let ret = libc::poll(&mut pfd, 1, remaining_ms); if ret <= 0 { return Err }
HavegedPoll ==
    /\ f_pc = "poll"
    /\ \E ret \in {-1, 0, 1} :
          IF ret <= 0
          THEN HavegedReturn([f_out EXCEPT !.ret = ret], Err(ErrNoEntropy))
          ELSE /\ f_out' = [f_out EXCEPT !.ret = ret]
               /\ f_pc' = "read"
    /\ UNCHANGED f_in
    /\ FunFrame

\* let n = (&f).read(&mut buf[filled..])?; if n == 0 { return Err }; filled += n
\* A read gives an error or 0..len bytes of the slice it was handed.
HavegedRead ==
    /\ f_pc = "read"
    /\ \/ HavegedReturn([f_out EXCEPT !.n = None], Err(ErrIo))
       \/ \E n \in 0..(f_in.count - f_out.filled) :
             IF n = 0
             THEN HavegedReturn([f_out EXCEPT !.n = Some(n)], Err(ErrNoEntropy))
             ELSE /\ f_out' = [f_out EXCEPT !.n = Some(n), !.filled = @ + n]
                  /\ f_pc' = "loop"
    /\ UNCHANGED f_in
    /\ FunFrame

\* The 2 seconds run out while the call is in its loop.
HavegedDeadline ==
    /\ f_pc \in {"loop", "poll", "read"}
    /\ ~f_out.expired
    /\ f_out' = [f_out EXCEPT !.expired = TRUE]
    /\ UNCHANGED <<f_pc, f_in>>
    /\ FunFrame

HavegedNext ==
    HavegedOpen \/ HavegedLoop \/ HavegedPoll \/ HavegedRead \/ HavegedDeadline

SpecHaveged == HavegedInit /\ [][HavegedNext]_vars

\* ------------------------------------------------------ jitter (jitter.rs)
\* collect_jitter_samples(count), one step per pass of its for loop.  The
\* busy-spin only burns time: its result x goes to black_box.

\* Readings of CLOCK_MONOTONIC in nanoseconds, in increasing order.
JitterTimes ==
    <<U64(1), U64(3), U64(511), U64(512), U64(1023), U64(65536),
      <<5, 0, 0, 0, 1, 0, 0, 0>>,
      <<255, 255, 255, 255, 255, 255, 255, 255>> >>

\* u64::wrapping_add on digit sequences; c is the carry in.
RECURSIVE add_carry(_, _, _)
add_carry(a, b, c) ==
    IF a = << >> THEN << >>
    ELSE <<(Head(a) + Head(b) + c) % 256>>
         \o add_carry(Tail(a), Tail(b), (Head(a) + Head(b) + c) \div 256)

\* accumulator.wrapping_add(ts)
wrapping_add(a, b) == add_carry(a, b, 0)

\* 1000 + (accumulator & 0x1FF) as usize
spin_count(accumulator) == 1000 + accumulator[1] + 256 * (accumulator[2] % 2)

\* u64::to_le_bytes
ts_to_le_bytes(ts) == ts

JitterInit ==
    /\ f_pc = "call"
    /\ f_in \in [count : 0..(MaxCount + 1)]
    /\ f_out = << >>
    /\ AllIdle

\* let mut samples = Vec::with_capacity(count * 8); let mut accumulator = 0
JitterStart ==
    /\ f_pc = "call"
    /\ f_out' = [i |-> 0, accumulator |-> U64(0), samples |-> << >>,
                 spins |-> << >>, clock |-> 0]
    /\ f_pc' = "loop"
    /\ UNCHANGED f_in
    /\ FunFrame

\* One pass of `for i in 0..count`: the spin count, the clock reading (later
\* than the previous one), the accumulator and the 8 sample bytes.  spins
\* and clock keep the spin counts used and the position of the last reading.
JitterSample ==
    /\ f_pc = "loop"
    /\ f_out.i < f_in.count
    /\ \E k \in (f_out.clock + 1)..Len(JitterTimes) :
          LET ts == JitterTimes[k]
          IN  f_out' = [i |-> f_out.i + 1,
                        accumulator |-> wrapping_add(f_out.accumulator, ts),
                        samples |-> f_out.samples \o ts_to_le_bytes(ts),
                        spins |-> Append(f_out.spins, spin_count(f_out.accumulator)),
                        clock |-> k]
    /\ UNCHANGED <<f_pc, f_in>>
    /\ FunFrame

\* The loop is over: samples is returned.
JitterReturn ==
    /\ f_pc = "loop"
    /\ f_out.i = f_in.count
    /\ f_pc' = "done"
    /\ UNCHANGED <<f_in, f_out>>
    /\ FunFrame

JitterNext == JitterStart \/ JitterSample \/ JitterReturn

SpecJitter == JitterInit /\ [][JitterNext]_vars

\* ------------------------------------------------- adapters, byte by byte
\* The buffer each adapter returns for a request of count bytes.  A byte is
\* "zero" as allocated by vec![0u8; count] and otherwise names what wrote it.  A
\* result is Ok with its buffer, Err, or a panic (a slice out of range).

AdapterOk(buf) == [ok |-> TRUE, buf |-> buf, panicked |-> FALSE]
AdapterErr == [ok |-> FALSE, buf |-> << >>, panicked |-> FALSE]
AdapterPanic == [ok |-> FALSE, buf |-> << >>, panicked |-> TRUE]

\* buf[from..to].copy_from_slice(src) on a buffer held as a sequence.
slice_copy(buf, from, to, src) ==
    SubSeq(buf, 1, from) \o src \o SubSeq(buf, to + 1, Len(buf))

\* Variant: a whole word is copied every time.
to_copy_whole_word(count, offset) == 8

\* let to_copy = (count - offset).min(8)
to_copy(count, offset) == Min(count - offset, 8)

\* One turn of `while offset < count` in collect_rdseed, collect_rdrand and
\* collect_xstore: st holds buf, offset and the number of words the
\* instruction still delivers; the outcome is the next locals or a result.
word_step(st, count) ==
    IF ~(st.offset < count) THEN [st EXCEPT !.result = Some(AdapterOk(st.buf))]
    ELSE IF st.good = 0 THEN [st EXCEPT !.result = Some(AdapterErr)]
    ELSE LET n == to_copy(count, st.offset)
         IN  IF st.offset + n > Len(st.buf) \/ n > 8
             THEN [st EXCEPT !.result = Some(AdapterPanic)]
             ELSE [st EXCEPT !.buf = slice_copy(st.buf, st.offset, st.offset + n,
                                                [j \in 1..n |-> "word"]),
                             !.offset = @ + n,
                             !.good = @ - 1]

\* One turn of `while filled < count` in read_haveged with the poll ready in
\* time: the read gives up to chunk bytes of buf[filled..]; st.good reads
\* succeed, the next one fails or returns 0.
haveged_step(st, count, chunk) ==
    IF ~(st.offset < count) THEN [st EXCEPT !.result = Some(AdapterOk(st.buf))]
    ELSE IF st.good = 0 THEN [st EXCEPT !.result = Some(AdapterErr)]
    ELSE LET n == Min(chunk, Len(st.buf) - st.offset)
         IN  [st EXCEPT !.buf = slice_copy(st.buf, st.offset, st.offset + n,
                                           [j \in 1..n |-> "random"]),
                        !.offset = @ + n,
                        !.good = @ - 1]

\* File::open(..)?, vec![0u8; count], f.read_exact(&mut buf)?: the file
\* delivers good bytes before it ends or fails.
read_exact_file(count, present, good) ==
    IF ~present THEN AdapterErr
    ELSE IF good < count THEN AdapterErr
    ELSE AdapterOk([i \in 1..count |-> "file"])

\* generate_fallback: the 32-byte urandom read, then Ok(csprng::generate(seed, count)).
generate_fallback_buf(count, present, good) ==
    IF ~read_exact_file(32, present, good).ok THEN AdapterErr
    ELSE AdapterOk(generate("seed", count))

\* The number of bytes the adapter's loop is asked for: count, or
\* count * oversample of raw bytes in collect_cpu_entropy_standalone.
loop_count(in) ==
    IF in.adapter = "collect_cpu_entropy_standalone" /\ in.oversample > 1
    THEN in.count * in.oversample
    ELSE in.count

\* What the adapter returns once its loop has a result: the loop's buffer, or
\* in the oversampling path Ok(csprng::generate(seed, count)).
adapter_return(in, result) ==
    IF in.adapter = "collect_cpu_entropy_standalone" /\ in.oversample > 1 /\ result.ok
    THEN AdapterOk(generate("seed", in.count))
    ELSE result

\* &data[..2500]: None when the range is past the end (the index panics).
slice_to(data, end) == IF end > Len(data) THEN None ELSE Some(SubSeq(data, 1, end))

AdapterCounts == {0, 1, 7, 8, 9, FipsBytes, FipsBytes + 1}
AdapterGood == {0, 2, 10000}
LoopAdapters == {"collect_rdseed", "collect_rdrand", "collect_xstore",
                 "read_haveged", "collect_cpu_entropy_standalone"}

AdapterInit ==
    /\ f_pc = "call"
    /\ f_in \in
          [adapter : {"collect_rdseed", "collect_rdrand", "collect_xstore",
                      "read_hwrng", "read_urandom", "generate_fallback"},
           count : AdapterCounts, present : BOOLEAN, good : AdapterGood,
           chunk : {8}, oversample : {1}]
          \cup
          [adapter : {"read_haveged"}, count : AdapterCounts, present : BOOLEAN,
           good : AdapterGood, chunk : {7, 1000}, oversample : {1}]
          \cup
          [adapter : {"collect_cpu_entropy_standalone"}, count : AdapterCounts,
           present : BOOLEAN, good : AdapterGood, chunk : {8},
           oversample : 1..MaxOversample]
    /\ f_out = << >>
    /\ AllIdle

\* The call up to the loop: the support test or open, and the allocation.
AdapterOpen ==
    /\ f_pc = "call"
    /\ LET st == [buf |-> [i \in 1..loop_count(f_in) |-> "zero"], offset |-> 0,
                  good |-> f_in.good, result |-> None]
       IN  IF f_in.adapter \in LoopAdapters
           THEN IF f_in.present
                THEN f_pc' = "loop" /\ f_out' = st
                ELSE f_pc' = "return"
                     /\ f_out' = [st EXCEPT !.buf = << >>, !.result = Some(AdapterErr)]
           ELSE /\ f_pc' = "return"
                /\ f_out' = [st EXCEPT
                       !.buf = << >>,
                       !.result = Some(IF f_in.adapter = "generate_fallback"
                                       THEN generate_fallback_buf(f_in.count, f_in.present, f_in.good)
                                       ELSE read_exact_file(f_in.count, f_in.present, f_in.good))]
    /\ UNCHANGED f_in
    /\ FunFrame

\* One turn of the adapter's loop, or its exit.
AdapterLoop ==
    /\ f_pc = "loop"
    /\ LET st == IF f_in.adapter = "read_haveged"
                 THEN haveged_step(f_out, loop_count(f_in), f_in.chunk)
                 ELSE word_step(f_out, loop_count(f_in))
       IN  IF st.result = None
           THEN f_out' = st /\ f_pc' = "loop"
           ELSE /\ f_out' = [st EXCEPT !.buf = << >>,
                                       !.result = Some(adapter_return(f_in, st.result[1]))]
                /\ f_pc' = "return"
    /\ UNCHANGED f_in
    /\ FunFrame

\* The caller in check mode (count is the sample size) on an Ok sample:
\* do_fips = sample_size >= 2500, fips_data = &data[..2500].
AdapterSample ==
    /\ f_pc = "return"
    /\ LET r == f_out.result[1]
           fips == f_in.count >= FipsBytes
       IN  f_out' = [result |-> r,
                     sliced |-> r.ok /\ fips,
                     fips_data |-> IF r.ok /\ fips THEN slice_to(r.buf, 2500)
                                   ELSE None]
    /\ f_pc' = "done"
    /\ UNCHANGED f_in
    /\ FunFrame

AdapterNext == AdapterOpen \/ AdapterLoop \/ AdapterSample

SpecAdapters == AdapterInit /\ [][AdapterNext]_vars

\* ------------------------------------------------------------------ claims

LastCall == g_calls[Len(g_calls)]

C1_Order == <<"hwrng", "cpurng", "haveged", "fallback">>

C1_Label(adapter) ==
    CASE adapter = "hwrng" -> "hardware RNG (/dev/hwrng)"
      [] adapter = "cpurng" -> "CPU hardware RNG"
      [] adapter = "haveged" -> "haveged (/dev/random)"
      [] adapter = "fallback" ->
            "fallback (urandom + procfs + jitter + cpu-rng -> BLAKE2b -> ChaCha20)"

\* C1: generate invokes the adapters in the order hwrng, CPU RNG, haveged,
\* fallback; every adapter invoked before the last one failed (none is invoked
\* after a success); it returns the bytes and the label of the first adapter
\* that succeeded, and the only error it ever returns is the fallback's.
C1_FirstSuccessWins ==
    /\ Len(g_calls) <= Len(C1_Order)
    /\ \A i \in 1..Len(g_calls) : g_calls[i].adapter = C1_Order[i]
    /\ \A i \in 1..(Len(g_calls) - 1) : ~g_calls[i].ok
    /\ g_pc # "done" => /\ \A i \in 1..Len(g_calls) : ~g_calls[i].ok
                        /\ g_pc = C1_Order[Len(g_calls) + 1]
    /\ g_pc = "done" =>
          /\ Len(g_calls) >= 1
          /\ g_result.ok = LastCall.ok
          /\ g_result.ok => /\ g_result.len = g_count
                            /\ g_result.len = LastCall.len
                            /\ g_result.source = C1_Label(LastCall.adapter)
          /\ ~g_result.ok => /\ LastCall.adapter = "fallback"
                             /\ g_result.err = LastCall.err
                             /\ g_result.err # NoError

\* C1 witness: hwrng and the CPU path failed, haveged succeeded and was returned.
C1_Witness ==
    /\ g_pc = "done" /\ g_result.ok
    /\ Len(g_calls) = 3
    /\ g_result.source = "haveged (/dev/random)"

C2_Enabled(config, i) ==
    CASE i = Rdseed -> config.enable_rdseed
      [] i = Rdrand -> config.enable_rdrand
      [] i = Xstore -> config.enable_xstore

C2_NoCpu(config, cpu) == \A i \in Instr : ~(C2_Enabled(config, i) /\ cpu[i])

\* C2: generate_fallback fails exactly when /dev/urandom cannot be opened or
\* read; a failed procfs read and the failure or disabling of every CPU
\* instruction give an empty mix input and no failure; generate returns an
\* error only after hwrng, CPU RNG and haveged failed and urandom is unavailable.
C2_FallbackFailsOnlyOnUrandom ==
    /\ g_fb # << >> =>
          LET env == g_fb[1].env
              mix == g_fb[1].mix
          IN  /\ LastCall.adapter = "fallback"
              /\ ~LastCall.ok <=> ~(env.ur_open /\ env.ur_read)
              /\ LastCall.ok =>
                    /\ Len(mix) = 6
                    /\ mix[1] = <<"urandom", 32>>
                    /\ mix[2] = <<"interrupts", IF env.interrupts.ok THEN ProcLen ELSE 0>>
                    /\ mix[3] = <<"stat", IF env.stat.ok THEN ProcLen ELSE 0>>
                    /\ mix[4] = <<"diskstats", IF env.diskstats.ok THEN ProcLen ELSE 0>>
                    /\ mix[6] = <<"cpu-rng", IF C2_NoCpu(g_cfg, env.cpu) THEN 0
                                             ELSE g_cfg.fallback_mix_bytes>>
    /\ (g_pc = "done" /\ ~g_result.ok) =>
          /\ Len(g_calls) = 4
          /\ \A i \in 1..3 : ~g_calls[i].ok
          /\ g_fb # << >>
          /\ ~(g_fb[1].env.ur_open /\ g_fb[1].env.ur_read)

\* C2 witness: every procfs read and every CPU instruction failed, and the
\* fallback still succeeded.
C2_Witness ==
    /\ g_fb # << >>
    /\ LastCall.ok
    /\ ~g_fb[1].env.interrupts.ok /\ ~g_fb[1].env.stat.ok /\ ~g_fb[1].env.diskstats.ok
    /\ \A i \in Instr : ~g_fb[1].env.cpu[i]
    /\ g_cfg.fallback_mix_bytes = MixBytes
    /\ g_cfg.enable_rdseed

\* The tick read entropy_avail and found it strictly below the threshold.
BelowThreshold == d_tick.avail_ok /\ d_tick.avail < d_args.threshold

\* The current tick is over: run is in or past its interruptible sleep.
TickAtSleep == d_ticks >= 1 /\ d_pc \in {"sleep_check", "sleeping", "loop", "returned"}

C3_Returns ==
    /\ d_pc = "returned" <=> d_result # NoError
    /\ d_result \in {NoError, "Ok", ErrInvalidArgs, ErrIo}
    /\ d_result = ErrInvalidArgs <=> (d_pc # "start" /\ IsZero(d_args.batch_size))
    /\ d_result \in {ErrInvalidArgs, ErrIo} =>
          d_ticks = 0 /\ d_tick = NoTick /\ d_pool = << >>
    /\ d_result = "Ok" => SHUTDOWN

C3_TickSurvives ==
    /\ (d_pc = "read_avail" /\ d_pc' # d_pc /\ ~d_tick'.avail_ok) => d_pc' = "sleep_check"
    /\ (d_pc = "generate" /\ d_pc' # d_pc /\ ~d_tick'.fallback_ok) => d_pc' = "sleep_check"
    /\ (d_pc = "inject" /\ d_tick'.ioctl_called /\ ~d_tick'.ioctl_ok) => d_pc' = "sleep_check"
    /\ (d_pc \in {"sleep_check", "sleeping"} /\ d_pc' # d_pc) =>
          d_pc' \in {"sleep_check", "sleeping", "loop"}
    /\ (d_pc = "loop" /\ d_pc' # d_pc /\ ~SHUTDOWN) => d_pc' = "read_avail"
    /\ (d_pc = "loop" /\ d_pc' # d_pc /\ SHUTDOWN) => (d_pc' = "returned" /\ d_result' = "Ok")

\* C3: run returns an error only from the batch_size and /dev/random checks,
\* before any tick or injection; a failed entropy_avail read, compositor call
\* or ioctl sends the tick to its sleep and on to the loop condition, and run
\* returns Ok only with the shutdown flag set.
C3_OnlyStartupErrors == []C3_Returns /\ [][C3_TickSurvives]_vars

\* C3 witness: a tick whose compositor call failed has slept and run is back
\* at the loop condition with the flag unset.
C3_Witness ==
    /\ d_pc = "loop" /\ ~SHUTDOWN
    /\ d_ticks >= 1
    /\ d_tick.fallback_called /\ ~d_tick.fallback_ok

\* C4 as stated: at the sleep, the compositor was called and the ioctl
\* attempted if and only if entropy_avail was read and was below the threshold.
C4_Original ==
    TickAtSleep =>
       /\ (d_tick.fallback_called /\ d_tick.ioctl_called) <=> BelowThreshold
       /\ ~BelowThreshold => (~d_tick.fallback_called /\ ~d_tick.ioctl_called)

\* C4 amended: the compositor is called if and only if entropy_avail was read
\* and was strictly below the threshold; the ioctl is attempted only after the
\* compositor returned Ok, and in every tick that reaches its sleep exactly
\* then; otherwise the tick calls neither.
C4_Amended ==
    /\ d_pc \in {"generate", "inject"} => BelowThreshold
    /\ d_tick.fallback_called => BelowThreshold
    /\ d_tick.fallback_ok => d_tick.fallback_called
    /\ d_tick.ioctl_called => d_tick.fallback_ok
    /\ TickAtSleep =>
          /\ d_tick.fallback_called <=> BelowThreshold
          /\ d_tick.ioctl_called <=> d_tick.fallback_ok

\* C4 witness: a tick below the threshold whose compositor call failed is at
\* its sleep without an ioctl.
C4_Witness ==
    /\ d_pc = "sleep_check"
    /\ BelowThreshold
    /\ d_tick.fallback_called /\ ~d_tick.fallback_ok /\ ~d_tick.ioctl_called

\* The digits of a header field read back in host byte order.
FromNe(bytes) == to_ne_bytes(bytes, d_host.big_endian)

\* C5: the record's entropy_count is batch_size * credit_ratio as a
\* non-negative i32 and its buf_size is batch_size, and computing them never
\* panics.
C5_CreditExact ==
    /\ d_pc # "panicked"
    /\ d_pool # << >> =>
          LET entropy_count == FromNe(SubSeq(d_pool, 1, 4))
              buf_size == FromNe(SubSeq(d_pool, 5, 8))
          IN  /\ entropy_count[4] < 128
              /\ entropy_count \o <<0, 0, 0, 0, 0>>
                    = MulDigits(d_args.batch_size, d_args.credit_ratio, 0)
              /\ buf_size[4] < 128
              /\ buf_size \o <<0, 0, 0, 0>> = d_args.batch_size

C7_Sleep ==
    /\ d_sleep.slept + d_sleep.remaining = 1000 * d_args.interval
          \/ d_pc \in {"start", "loop", "read_avail", "generate", "inject", "returned", "panicked"}
    /\ d_sleep.slept <= 1000 * d_args.interval
    /\ d_pc = "sleeping" =>
          /\ d_sleep.step = Min(d_sleep.remaining, StepMs)
          /\ d_sleep.step > 0
          /\ d_sleep.slept + d_sleep.step <= 1000 * d_args.interval

C7_Steps ==
    /\ (d_pc' = "sleeping" /\ d_pc # "sleeping") => (d_pc = "sleep_check" /\ ~SHUTDOWN)
    /\ (d_pc' = "read_avail" /\ d_pc # "read_avail") => (d_pc = "loop" /\ ~SHUTDOWN)
    /\ (d_pc = "sleeping" /\ d_pc' # d_pc) => d_pc' = "sleep_check"
    /\ (SHUTDOWN /\ d_pc = "sleep_check" /\ d_pc' # d_pc) => d_pc' = "loop"
    /\ (SHUTDOWN /\ d_pc = "loop" /\ d_pc' # d_pc) => (d_pc' = "returned" /\ d_result' = "Ok")

\* C7: the sleep proceeds in steps of min(remaining, 250 ms), reads the flag
\* before every step and never sleeps longer than the interval; with the flag
\* set during the sleep the step in progress ends, no further step and no
\* further tick begins, and run returns Ok.
C7_InterruptibleSleep == []C7_Sleep /\ [][C7_Steps]_vars

\* C7 witness: run returned Ok from a sleep cut short after its first step.
C7_Witness ==
    /\ d_pc = "returned" /\ d_result = "Ok"
    /\ d_sleep.slept > 0
    /\ d_sleep.slept < 1000 * d_args.interval

\* The byte of a 4-byte field that holds digit i (1 = least significant) on
\* the host.
C6_HostByte(i) == IF p_in.big_endian THEN 5 - i ELSE i

C6_Pow256(i) == CASE i = 1 -> 1 [] i = 2 -> 256 [] i = 3 -> 65536 [] i = 4 -> 16777216

\* The least multiple of 4 that is at least n.
C6_RoundUp4(n) == CHOOSE m \in n..(n + 3) : m % 4 = 0

\* C6: the buffer has length 8 + len(data) rounded up to a multiple of 4;
\* bytes 0..4 are entropy_bits and bytes 4..8 are len(data), both in host byte
\* order; then data; then zero padding.  data = [1,2,3], entropy_bits = 8 gives
\* 08 00 00 00 03 00 00 00 01 02 03 00 on a little-endian host.
C6_PoolInfoLayout ==
    p_pc = "built" =>
       LET n == Len(p_in.data) IN
       /\ Len(p_buf) = 8 + C6_RoundUp4(n)
       /\ \A i \in 1..4 : p_buf[C6_HostByte(i)] = p_in.entropy_bits[i]
       /\ \A i \in 1..4 : p_buf[4 + C6_HostByte(i)] = (n \div C6_Pow256(i)) % 256
       /\ \A i \in 1..n : p_buf[8 + i] = p_in.data[i]
       /\ \A i \in (8 + n + 1)..Len(p_buf) : p_buf[i] = 0
       /\ (p_in.data = <<1, 2, 3>> /\ p_in.entropy_bits = U32(8) /\ ~p_in.big_endian)
             => p_buf = <<8, 0, 0, 0, 3, 0, 0, 0, 1, 2, 3, 0>>

\* C6 witness: the record for data = [1,2,3], entropy_bits = 8 on a
\* little-endian host, with its one padding byte.
C6_Witness ==
    /\ p_pc = "built"
    /\ p_in.data = <<1, 2, 3>> /\ p_in.entropy_bits = U32(8) /\ ~p_in.big_endian
    /\ Len(p_buf) = 12

\* The arguments print_final_report is called with for the accumulators as
\* they are now.
FinalReport == <<[stats |-> c_stats, do_fips |-> do_fips]>>

InterruptedReturn ==
    /\ c_pc = "returned"
    /\ c_notice = "Interrupted"
    /\ c_report = FinalReport
    /\ c_result = NoError

C8_Step ==
    SHUTDOWN =>
        /\ c_pc = "loop_check" => c_pc' \in {"loop_check", "notice"} /\ c_stats' = c_stats
        /\ c_pc = "collect" => c_pc' \in {"collect", "loop_check"}
        /\ c_pc = "notice" => c_stats' = c_stats /\ (c_pc' = "notice" \/ InterruptedReturn')

C8_Eventually == (SHUTDOWN /\ c_pc \in {"loop_check", "collect"}) ~> InterruptedReturn

\* C8: once the shutdown flag is set while the check loop is running, no
\* further sample is started (a sample in flight is still collected and
\* accumulated), and run goes on to print the Interrupted notice, to emit the
\* final report for exactly what has been accumulated, and to return Ok; this
\* includes the flag being set before the first sample.
C8_ShutdownStopsLoop == [][C8_Step]_vars /\ C8_Eventually

\* The flag was seen by the between-sample check after a sample had been
\* accumulated, and run has returned with the partial report.
C8_Witness ==
    /\ InterruptedReturn
    /\ c_break = "shutdown"
    /\ c_last.ok
    /\ c_stats[c_last.i].total_samples = 1

C9_Upper(c) == IF c \in 97..122 THEN c - 32 ELSE c

C9_SameName(a, b) ==
    /\ Len(a) = Len(b)
    /\ \A k \in 1..Len(a) : C9_Upper(a[k]) = C9_Upper(b[k])

C9_ProbeOk(kind) == \E k \in 1..Len(c_probed) : candidates[k] = kind /\ c_probed[k]

C9_Named(kind) ==
    \/ ~c_args.sources.given
    \/ \E k \in 1..Len(c_args.sources.names) :
         C9_SameName(c_args.sources.names[k], name(kind))

C9_Survives(kind) == C9_ProbeOk(kind) /\ C9_Named(kind)

C9_Expected == SelectSeq(candidates, C9_Survives)

C9_Filtered == Len(c_probed) = Len(candidates) /\ c_pc # "probe"

\* C9: the sources sampled in check mode are exactly the candidates whose
\* 32-byte probe succeeded and, when --sources is given, whose short name
\* equals one of the user's names up to ASCII case, in candidate order; when
\* none survives, run returns the NoEntropy error before any sample is
\* collected.
C9_SampledSources ==
    /\ C9_Filtered => c_sources = C9_Expected
    /\ C9_Filtered /\ C9_Expected = << >> =>
         /\ c_pc = "returned"
         /\ c_result = ErrNoEntropy
         /\ c_last = NoSample
         /\ c_stats = << >>
         /\ c_report = << >>
    /\ C9_Filtered /\ C9_Expected # << >> =>
         /\ c_result = NoError
         /\ Len(c_stats) = Len(C9_Expected)
    /\ ~C9_Filtered => c_last = NoSample /\ c_stats = << >>
    /\ c_last.i # 0 => c_last.i \in 1..Len(C9_Expected)

\* Probes of rdseed, urandom and fallback succeeded, --sources RdSeed,haveged
\* was given, and the one survivor, rdseed, has been sampled.
C9_Witness ==
    /\ c_available = <<"Rdseed", "Urandom", "Fallback">>
    /\ c_args.sources = [given |-> TRUE,
                         names |-> << <<82, 100, 83, 101, 101, 100>>,
                                      <<104, 97, 118, 101, 103, 101, 100>> >>]
    /\ c_sources = <<"Rdseed">>
    /\ c_last.i = 1
    /\ c_last.ok

C10_OtherFields == DOMAIN SourceStats_new \ {"errors"}

C10_Step ==
    /\ c_pc = "collect" /\ c_pc' # "collect" /\ ~c_last'.ok =>
         /\ c_stats'[c_i].errors = c_stats[c_i].errors + 1
         /\ \A f \in C10_OtherFields : c_stats'[c_i][f] = c_stats[c_i][f]
         /\ DOMAIN c_stats' = DOMAIN c_stats
         /\ \A k \in DOMAIN c_stats : k # c_i => c_stats'[k] = c_stats[k]
         /\ c_pc' = "loop_check"
         /\ c_i' = (c_i % Len(c_sources)) + 1
         /\ c_sources' = c_sources
    /\ c_pc = "loop_check" /\ c_pc' # "loop_check" /\ ~SHUTDOWN /\ ~c_expired =>
         c_pc' = "collect"

\* C10: when an adapter fails in the sampling loop, the errors counter of that
\* source goes up by one, every other field of its accumulator and every other
\* source's accumulator stay as they were, and the loop goes on to the
\* between-sample check of the next source.
C10_ErrorOnlyCounts == [][C10_Step]_vars

\* The first source failed, its error is counted with no sample, and the loop
\* has started the sample of the second source.
C10_Witness ==
    /\ c_pc = "collect"
    /\ c_i = 2
    /\ c_last = [i |-> 1, ok |-> FALSE, data |-> ""]
    /\ c_stats[1].errors = 1
    /\ c_stats[1].total_samples = 0

C11_FipsCounters ==
    {"fips_monobit_pass", "fips_poker_pass", "fips_runs_pass", "fips_long_runs_pass",
     "fips_all_pass"}

C11_NoFips ==
    c_args.sample_size < 2500 =>
        \A k \in DOMAIN c_stats : \A f \in C11_FipsCounters : c_stats[k][f] = 0

\* The four test results of the suite on the sample's first 2500 bytes.
C11_Tests(data) == fips_suite(data[1])

C11_Step ==
    c_pc = "collect" /\ c_pc' # "collect" /\ c_last'.ok =>
        LET old == c_stats[c_i]
            new == c_stats'[c_i]
            data == c_last'.data
            est == entropy_estimates(data, c_args.sample_size)
        IN  /\ new.total_samples = old.total_samples + 1
            /\ new.shannon_sum = old.shannon_sum + est.shannon
            /\ new.min_entropy_sum = old.min_entropy_sum + est.min_entropy
            /\ new.chi_square_sum = old.chi_square_sum + est.chi_square
            /\ new.mean_sum = old.mean_sum + est.mean
            /\ new.serial_corr_sum = old.serial_corr_sum + est.serial_correlation
            /\ c_args.sample_size >= 2500 =>
                 /\ new.fips_monobit_pass = old.fips_monobit_pass + Bump(C11_Tests(data).monobit)
                 /\ new.fips_poker_pass = old.fips_poker_pass + Bump(C11_Tests(data).poker)
                 /\ new.fips_runs_pass = old.fips_runs_pass + Bump(C11_Tests(data).runs)
                 /\ new.fips_long_runs_pass =
                      old.fips_long_runs_pass + Bump(C11_Tests(data).long_runs)

\* C11: with sample_size < 2500 the five FIPS pass counters of every source
\* stay 0 for the whole run while every successful sample still adds its five
\* entropy estimates to the sums; with sample_size >= 2500 every successful
\* sample is put through all four FIPS tests on its first 2500 bytes.
C11_FipsOnlyFromBlockSize == []C11_NoFips /\ [][C11_Step]_vars

\* A 32-byte sample of random bytes has been accumulated: its estimates are in
\* the sums and no FIPS counter moved.
C11_Witness ==
    /\ c_args.sample_size = 32
    /\ c_last.ok
    /\ c_last.data = <<"chacha">>
    /\ c_stats[c_last.i].total_samples = 1
    /\ c_stats[c_last.i].shannon_sum = 5
    /\ c_stats[c_last.i].fips_all_pass = 0

C12_BadDuration == m_cli.command = "check" /\ m_cli.duration \in {<< >>, <<48, 115>>}

C12_ExplicitConfigMissing == m_cli.config_file /\ ~m_file.exists

C12_TomlParseError == m_file.exists /\ m_file.read_ok /\ ~m_file.parse_ok

C12_ZeroByteCount == m_cli.command = "generate" /\ m_cli.bytes = 0

C12_ZeroBatchSize == m_cli.command = "daemon" /\ m_cli.batch_size = 0

C12_Invalid ==
    \/ C12_BadDuration
    \/ C12_ExplicitConfigMissing
    \/ C12_TomlParseError
    \/ C12_ZeroByteCount
    \/ C12_ZeroBatchSize

\* C12: every invalid-argument condition (bad duration, explicit --config path
\* that does not exist, TOML parse error, zero byte count, zero batch size)
\* makes the process exit with code 1 without running the generation, the
\* daemon loop or the check; a missing file at the default path gives the
\* defaults without an error.
C12_InvalidArgsExit1 ==
    /\ m_pc = "exited" /\ C12_Invalid => m_exit = 1 /\ m_ran = "none"
    /\ m_pc # "start" /\ ~m_cli.config_file /\ ~m_file.exists =>
         ~m_warned /\ m_raw = layered(FALSE, m_file, m_cli.cpu_rng)

C13_InRange(cfg) ==
    /\ cfg.rdrand_retries \in 1..100
    /\ cfg.rdseed_retries \in 1..100
    /\ cfg.xstore_quality \in 0..3
    /\ cfg.fallback_mix_bytes \in 0..1024
    /\ cfg.oversample \in 1..16

\* C13: after validate, rdrand_retries and rdseed_retries are in [1,100],
\* xstore_quality in [0,3], fallback_mix_bytes in [0,1024] and oversample in
\* [1,16]; validating again changes nothing; a field already in its range
\* keeps its value; the enable flags and the preferred instruction are as
\* they were.
C13_ValidateClamps ==
    m_pc # "start" =>
        /\ C13_InRange(m_cfg)
        /\ validate(m_cfg) = m_cfg
        /\ m_raw.rdrand_retries \in 1..100 => m_cfg.rdrand_retries = m_raw.rdrand_retries
        /\ m_raw.rdseed_retries \in 1..100 => m_cfg.rdseed_retries = m_raw.rdseed_retries
        /\ m_raw.xstore_quality \in 0..3 => m_cfg.xstore_quality = m_raw.xstore_quality
        /\ m_raw.fallback_mix_bytes \in 0..1024 =>
             m_cfg.fallback_mix_bytes = m_raw.fallback_mix_bytes
        /\ m_raw.oversample \in 1..16 => m_cfg.oversample = m_raw.oversample
        /\ m_cfg.enable_rdseed = m_raw.enable_rdseed
        /\ m_cfg.enable_rdrand = m_raw.enable_rdrand
        /\ m_cfg.enable_xstore = m_raw.enable_xstore
        /\ m_cfg.prefer = m_raw.prefer
        /\ C13_InRange(m_raw) => m_cfg = m_raw

\* A configuration with fields below and above their ranges, and one inside,
\* has been validated.
C13_Witness ==
    /\ m_pc = "dispatch"
    /\ m_raw.rdrand_retries = 0 /\ m_cfg.rdrand_retries = 1
    /\ m_raw.oversample = 17 /\ m_cfg.oversample = 16
    /\ m_raw.fallback_mix_bytes = 1025 /\ m_cfg.fallback_mix_bytes = 1024
    /\ m_raw.xstore_quality = 3 /\ m_cfg.xstore_quality = 3

\* The value of a string of decimal digits, in 12 base-256 digits.
RECURSIVE C14_Decimal(_, _)
C14_Decimal(s, acc) ==
    IF s = << >> THEN acc
    ELSE C14_Decimal(Tail(s), SubSeq(AddDigits(SubSeq(MulWide(acc, 10, 0), 1, 12),
                                               Head(s) - 48), 1, 12))

C14_Multiplier ==
    CASE f_in.suffix = <<115>> -> 1
      [] f_in.suffix = <<109>> -> 60
      [] f_in.suffix = <<104>> -> 3600
      [] f_in.suffix = <<100>> -> 86400
      [] OTHER -> 60

C14_N == C14_Decimal(f_in.number, Digits(0, 12))

\* N * multiplier without any width limit on the result.
C14_Seconds == SubSeq(MulWide(C14_N, C14_Multiplier, 0), 1, 12)

C14_WellFormed ==
    /\ f_in.sign = << >>
    /\ f_in.number # << >>
    /\ \A k \in 1..Len(f_in.number) : f_in.number[k] \in 48..57
    /\ ~IsZero(C14_N)
    /\ f_in.suffix \in {<< >>, <<115>>, <<109>>, <<104>>, <<100>>}

C14_Fits == IsZero(SubSeq(C14_Seconds, 9, 12))

\* C14: parse_duration never panics; for a decimal N > 0 with suffix s, m, h,
\* d or none it returns N times 1, 60, 3600, 86400 or 60 seconds, exactly;
\* every other input, and an N whose seconds do not fit in 64 bits, is an
\* InvalidArgs error; it never returns a zero or wrapped-around duration.
C14_ParseDurationTotal ==
    f_pc = "done" =>
        /\ ~f_out.panicked
        /\ C14_WellFormed /\ C14_Fits =>
             f_out.ok /\ f_out.secs = SubSeq(C14_Seconds, 1, 8)
        /\ ~(C14_WellFormed /\ C14_Fits) => ~f_out.ok /\ f_out.err = ErrInvalidArgs
        /\ f_out.ok => ~IsZero(f_out.secs)

\* The pairs read back from a framed stream: an 8-byte little-endian length
\* (below 256 here), that many bytes of label, another length, the data.
RECURSIVE C15_Unframe(_)
C15_Unframe(s) ==
    IF Len(s) < 16 THEN << >>
    ELSE LET ll == s[1]
             dl == s[9 + ll]
             label == SubSeq(s, 9, 8 + ll)
             data == SubSeq(s, 17 + ll, 16 + ll + dl)
         IN  << <<label, data>> >> \o C15_Unframe(SubSeq(s, 17 + ll + dl, Len(s)))

RECURSIVE C15_FramedLen(_)
C15_FramedLen(inputs) ==
    IF inputs = << >> THEN 0
    ELSE 16 + Len(Head(inputs)[1]) + Len(Head(inputs)[2]) + C15_FramedLen(Tail(inputs))

C15_Stream == f_out.blake2b256

\* C15: the stream fed to the hash is the 18-byte tag followed, per pair in
\* order, by u64-LE(len(label)), label, u64-LE(len(data)), data; the framing
\* is injective (the list is read back from the stream, so lists that differ
\* in a label, in the order of two entries or in a label/data boundary have
\* different streams and seeds); equal lists give equal seeds and the empty
\* list gives the hash of the tag alone.
C15_FramingInjective ==
    f_pc = "done" =>
        /\ SubSeq(C15_Stream, 1, 18) = MixTag
        /\ Len(C15_Stream) = 18 + C15_FramedLen(f_in)
        /\ C15_Unframe(SubSeq(C15_Stream, 19, Len(C15_Stream))) = f_in
        /\ f_out = mix_entropy(f_in)
        /\ f_in = << >> => f_out = Blake2b256(MixTag)

\* The list (<<1>>, <<>>), (<<>>, <<1>>) has been mixed: its two pairs differ
\* only in where the boundary between label and data falls.
C15_Witness ==
    /\ f_pc = "done"
    /\ f_in = << <<<<1>>, << >>>>, <<<< >>, <<1>>>> >>
    /\ C15_Stream = MixTag \o <<1, 0, 0, 0, 0, 0, 0, 0, 1>> \o <<0, 0, 0, 0, 0, 0, 0, 0>>
                           \o <<0, 0, 0, 0, 0, 0, 0, 0>> \o <<1, 0, 0, 0, 0, 0, 0, 0, 1>>

\* C16: for every seed s and all n, k >= 0, generate(s, n) has exactly n
\* bytes, is determined by s alone (byte i is keystream byte i of s), and is
\* the first n bytes of generate(s, n + k).
C16_KeyStream(seed, i) == keystream_byte(seed, (i - 1) \div 4, (i - 1) % 4)

C16_StreamConsistent ==
    f_pc = "done" =>
        /\ Len(f_out.short) = f_in.n
        /\ Len(f_out.long) = f_in.n + f_in.k
        /\ f_out.short = SubSeq(f_out.long, 1, f_in.n)
        /\ \A i \in 1..f_in.n : f_out.short[i] = C16_KeyStream(f_in.seed, i)

C16_Witness ==
    /\ f_pc = "done"
    /\ f_in.n = 257
    /\ f_in.k = 3
    /\ Len(f_out.short) = 257
    /\ Len(f_out.long) = 260
    /\ f_out.short[257] = f_out.long[257]

\* C17: every seed the mixer produced is used for exactly one expansion and
\* is all zero when the function that produced it returns, in
\* generate_fallback and in collect_cpu_entropy_standalone with
\* oversample > 1, which also leaves its raw buffer all zero.
C17_Zero(local) == \A i \in 1..Len(local) : IsZero(local[i])

C17_SeedProduced == f_pc = "done" /\ f_out.pre.seed # None

C17_SeedZeroized ==
    C17_SeedProduced =>
        /\ f_out.expansions = 1
        /\ C17_Zero(f_out.locals.seed)
        /\ C17_Zero(f_out.locals.raw_bytes)

\* The fallback compositor alone: one expansion, seed zeroized.
C17_FallbackSeedZeroized ==
    (C17_SeedProduced /\ f_in.fn = "generate_fallback") =>
        /\ f_out.expansions = 1
        /\ C17_Zero(f_out.locals.seed)

\* The oversampling path: one expansion, raw buffer zeroized.
C17_StandaloneRawZeroized ==
    (C17_SeedProduced /\ f_in.fn = "collect_cpu_entropy_standalone") =>
        /\ f_out.expansions = 1
        /\ f_out.pre.raw_bytes # None
        /\ C17_Zero(f_out.locals.raw_bytes)

\* C18: whenever generate_fallback returns, Ok or Err, every buffer it
\* filled and the seed hold only zero bytes; zeroize leaves a buffer of the
\* same length with every byte zero, an empty buffer included.
C18_Locals ==
    {"urandom_seed", "interrupts", "stat", "diskstats", "jitter", "cpu_entropy", "seed"}

C18_Returned == f_pc = "done" /\ f_in.fn = "generate_fallback"

C18_ZeroizeWorks ==
    C18_Returned =>
        \A l \in C18_Locals : \A i \in 1..Len(f_out.pre[l]) :
            /\ Len(zeroize_bytes(f_out.pre[l][i])) = Len(f_out.pre[l][i])
            /\ IsZero(zeroize_bytes(f_out.pre[l][i]))
            /\ zeroize_vec(f_out.pre[l][i]) = zeroize_bytes(f_out.pre[l][i])

C18_AllZeroOnReturn ==
    /\ C18_Returned => \A l \in C18_Locals : C17_Zero(f_out.locals[l])
    /\ C18_ZeroizeWorks

\* The success path alone.
C18_AllZeroOnOk ==
    (C18_Returned /\ f_out.result.ok) =>
        \A l \in C18_Locals : C17_Zero(f_out.locals[l])

\* C19: the shutdown flag starts false and no step of the daemon loop or of
\* the check loop takes it from true back to false: the only write is the
\* signal handler's store of true.
C19_ShutdownMonotone ==
    /\ SHUTDOWN = FALSE
    /\ [][SHUTDOWN => SHUTDOWN']_vars

\* The daemon loop ran at least one tick, then observed the flag and returned.
C19_Witness ==
    /\ SHUTDOWN
    /\ d_pc = "returned"
    /\ d_ticks >= 1

\* C20: fips_runs reads the 20000 bits most significant bit first and
\* counts every maximal run of equal bits, the first and the last included,
\* once in the counter of its bit value and of bucket min(length, 6); a
\* bucket is only computed from a run length of at least 1; the test passes
\* iff all 12 counters are within the inclusive bounds.
C20_Bits == 8 * FipsBytes

C20_Bit(i) == (data_at(f_in, i \div 8) \div 2 ^ (7 - (i % 8))) % 2

\* The positions where a maximal run starts.
C20_Starts == {i \in 0..(C20_Bits - 1) : i = 0 \/ C20_Bit(i) # C20_Bit(i - 1)}

\* min(length, 6) of the maximal run starting at i, given that it has at
\* least k bits.
RECURSIVE C20_Capped(_, _)
C20_Capped(i, k) ==
    IF k = 6 \/ i + k = C20_Bits \/ C20_Bit(i + k) # C20_Bit(i) THEN k
    ELSE C20_Capped(i, k + 1)

C20_Count(starts, v, b) ==
    Cardinality({i \in starts : C20_Bit(i) = v /\ C20_Capped(i, 1) = b})

C20_LowerBounds == <<2315, 1114, 527, 240, 103, 103>>
C20_UpperBounds == <<2685, 1386, 723, 384, 209, 209>>

C20_RunsCounted ==
    /\ f_pc \in {"scan", "done"} => ~f_out.underflow
    /\ f_pc = "done" =>
          LET starts == C20_Starts
              zeros == [b \in 1..6 |-> C20_Count(starts, 0, b)]
              ones == [b \in 1..6 |-> C20_Count(starts, 1, b)]
          IN  /\ f_out.runs_0 = zeros
              /\ f_out.runs_1 = ones
              /\ f_out.passed <=>
                    \A b \in 1..6 :
                        /\ C20_LowerBounds[b] <= zeros[b] /\ zeros[b] <= C20_UpperBounds[b]
                        /\ C20_LowerBounds[b] <= ones[b] /\ ones[b] <= C20_UpperBounds[b]

\* A passing input with a counter on its lower and another on its upper bound.
C20_Witness ==
    /\ f_pc = "done"
    /\ f_out.passed
    /\ f_out.runs_0[6] = 103
    /\ f_out.runs_0[5] = 209
    /\ f_out.value = 12

\* C21: the value fips_long_runs reports is the length of the longest
\* maximal run of equal bits of the input read most significant bit first,
\* the run at the end of the data included, and the test passes iff that
\* value is at most 25.
C21_Bit(i) == (data_at(f_in, i \div 8) \div 2 ^ (7 - (i % 8))) % 2

\* Some len consecutive bits are equal.
C21_HasRun(len) ==
    \E i \in 0..(C20_Bits - len) : \A j \in (i + 1)..(i + len - 1) : C21_Bit(j) = C21_Bit(i)

C21_LongestRun ==
    f_pc = "done" =>
        /\ f_out.value \in 1..C20_Bits
        /\ C21_HasRun(f_out.value)
        /\ f_out.value < C20_Bits => ~C21_HasRun(f_out.value + 1)
        /\ f_out.passed <=> f_out.value <= 25

\* The longest run is the last one and has exactly 25 bits: the test passes.
C21_Witness ==
    /\ f_pc = "done"
    /\ f_in.first = <<85>>
    /\ f_in.switch = FipsBytes - 3
    /\ f_out.value = 25
    /\ f_out.passed

\* C22: instruction_order returns exactly the enabled instructions, each
\* once, the preferred one first when it is enabled and the others in the
\* order RDSEED, RDRAND, XSTORE; collect_cpu_entropy fails with the 'all
\* CPU RNG instructions are disabled' error and executes no instruction
\* exactly when that list is empty.
C22_Enabled ==
    {p \in Instr : CASE p = Rdseed -> f_in.config.enable_rdseed
                     [] p = Rdrand -> f_in.config.enable_rdrand
                     [] p = Xstore -> f_in.config.enable_xstore}

C22_Rank(p) == CASE p = Rdseed -> 1 [] p = Rdrand -> 2 [] p = Xstore -> 3

C22_OrderAndDisabled ==
    f_pc = "done" =>
        LET order == f_out.order
            r == f_out.result
        IN  /\ {order[i] : i \in 1..Len(order)} = C22_Enabled
            /\ Len(order) = Cardinality(C22_Enabled)
            /\ f_in.config.prefer \in C22_Enabled => order[1] = f_in.config.prefer
            /\ \A i, j \in 1..Len(order) :
                  (i < j /\ order[i] # f_in.config.prefer /\ order[j] # f_in.config.prefer)
                      => C22_Rank(order[i]) < C22_Rank(order[j])
            /\ (~r.ok /\ r.msg = "all CPU RNG instructions are disabled") <=> order = << >>
            /\ order = << >> => r.executed = << >>
            /\ order # << >> => r.executed # << >> /\ r.executed[1] = order[1]

\* Only the preferred instruction is disabled: the two others are tried in
\* the secondary order and the second one delivers.
C22_Witness ==
    /\ f_pc = "done"
    /\ f_in.config.prefer = Rdrand
    /\ ~f_in.config.enable_rdrand
    /\ f_out.order = <<Rdseed, Xstore>>
    /\ f_out.result.executed = <<Rdseed, Xstore>>
    /\ f_out.result.ok

\* Every instruction is disabled: the call fails before trying any.
C22_WitnessDisabled ==
    /\ f_pc = "done"
    /\ f_out.order = << >>
    /\ ~f_out.result.ok
    /\ f_out.result.executed = << >>

\* C23: the "cpu-rng" mix input of the fallback compositor is either
\* exactly fallback_mix_bytes bytes produced by the first enabled CPU
\* instruction, in preference order, or empty when that instruction fails or
\* no instruction is enabled.
C23_Preference ==
    CASE f_in.config.prefer = Rdseed -> <<Rdseed, Rdrand, Xstore>>
      [] f_in.config.prefer = Rdrand -> <<Rdrand, Rdseed, Xstore>>
      [] f_in.config.prefer = Xstore -> <<Xstore, Rdseed, Rdrand>>

C23_IsEnabled(p) ==
    CASE p = Rdseed -> f_in.config.enable_rdseed
      [] p = Rdrand -> f_in.config.enable_rdrand
      [] p = Xstore -> f_in.config.enable_xstore

\* Positions of the preference order whose instruction is enabled / is
\* enabled and delivers.
C23_EnabledAt == {i \in 1..3 : C23_IsEnabled(C23_Preference[i])}
C23_DeliversAt == {i \in C23_EnabledAt : f_in.cpu[C23_Preference[i]] = "ok"}

C23_Least(S) == CHOOSE i \in S : \A j \in S : i <= j

C23_BytesFrom(p) == [i \in 1..f_in.config.fallback_mix_bytes |-> p]

\* The claim as stated: only the first enabled instruction counts.
C23_Original ==
    f_pc = "done" =>
        /\ f_out[1] = "cpu-rng"
        /\ IF C23_EnabledAt # {} /\ C23_Least(C23_EnabledAt) \in C23_DeliversAt
           THEN f_out[2] = C23_BytesFrom(C23_Preference[C23_Least(C23_EnabledAt)])
           ELSE f_out[2] = << >>

\* Amended: the bytes come from the first enabled instruction that
\* delivers; the input is empty when no enabled instruction delivers.
C23_FirstThatDelivers ==
    f_pc = "done" =>
        /\ f_out[1] = "cpu-rng"
        /\ IF C23_DeliversAt # {}
           THEN f_out[2] = C23_BytesFrom(C23_Preference[C23_Least(C23_DeliversAt)])
           ELSE f_out[2] = << >>

\* The preferred instruction is enabled and fails, the next one delivers.
C23_Witness ==
    /\ f_pc = "done"
    /\ f_in.config.prefer = Rdseed
    /\ f_in.config.enable_rdseed
    /\ f_in.cpu[Rdseed] = "failed"
    /\ f_in.config.enable_rdrand
    /\ f_in.cpu[Rdrand] = "ok"
    /\ f_in.config.fallback_mix_bytes = MixBytes
    /\ f_out[2] = [i \in 1..MixBytes |-> Rdrand]

\* C24: read_haveged opens /dev/random only when a numeric /proc entry has
\* comm exactly 'haveged' and entropy_avail parsed to at least 1024; once
\* open it returns Ok only with exactly count bytes filled; a poll timeout
\* or error, a zero-byte read, a read error or the expired deadline ends the
\* call with an error; every pass of the loop returns an error or strictly
\* increases the filled count.
C24_NumericNames == {<<52>>, <<49, 50>>, <<55>>}

\* The comm files of a process called haveged: the kernel appends a newline.
C24_CommExact == {StrHaveged, StrHaveged \o <<10>>}

\* The comm files that are 'haveged' once surrounding white space is dropped.
C24_CommTrimmed == C24_CommExact \cup {StrHaveged \o <<32, 10>>}

C24_Found(comms) ==
    /\ f_in.proc # None
    /\ \E k \in 1..Len(f_in.proc[1]) :
          /\ f_in.proc[1][k].name \in C24_NumericNames
          /\ f_in.proc[1][k].comm # None
          /\ f_in.proc[1][k].comm[1] \in comms

\* The entropy_avail contents that parse to a number >= 1024.
C24_Enough ==
    f_in.avail \in {Some(<<49, 48, 50, 52, 10>>), Some(<<52, 48, 57, 54>>),
                    Some(<<32, 49, 48, 50, 52, 32>>), Some(<<43, 50, 48, 48, 48, 10>>)}

C24_Running == f_out # << >>

C24_Failed == f_pc = "done" /\ ~f_out.result.ok

C24_AfterOpen ==
    C24_Running =>
        /\ f_out.filled <= f_in.count
        /\ (f_pc = "done" /\ f_out.result.ok) =>
              /\ f_out.opened
              /\ f_out.filled = f_in.count
              /\ f_out.result.len = f_in.count
        /\ f_out.ret <= 0 => C24_Failed
        /\ f_out.n = Some(0) => C24_Failed

C24_Step ==
    /\ (f_pc = "loop" /\ f_out.filled < f_in.count /\ f_out.expired) => C24_Failed'
    /\ (f_pc = "read" /\ f_pc' # "read") =>
          \/ C24_Failed'
          \/ f_pc' = "loop" /\ f_out'.filled > f_out.filled
    /\ (f_pc = "read" /\ f_out'.n = None /\ f_pc' # "read") => C24_Failed'

RECURSIVE C25_XorByte(_, _, _)
C25_XorByte(a, b, bits) ==
    IF bits = 0 THEN 0
    ELSE ((a + b) % 2) + 2 * C25_XorByte(a \div 2, b \div 2, bits - 1)

C25_Xor(x, y) == [k \in 1..8 |-> C25_XorByte(x[k], y[k], 8)]

\* The timestamps sampled so far, read back from the sample bytes.
C25_Stamp(k) == SubSeq(f_out.samples, 8 * (k - 1) + 1, 8 * k)

RECURSIVE C25_XorFold(_)
C25_XorFold(k) == IF k = 0 THEN U64(0) ELSE C25_Xor(C25_XorFold(k - 1), C25_Stamp(k))

C25_Low9(acc) == acc[1] + 256 * (acc[2] % 2)

C25_SizeAndSpin ==
    f_pc \in {"loop", "done"} =>
        /\ Len(f_out.samples) = 8 * f_out.i
        /\ f_pc = "done" => Len(f_out.samples) = 8 * f_in.count
        /\ Len(f_out.spins) = f_out.i
        /\ \A k \in 1..f_out.i : f_out.spins[k] \in 1000..1511

C25_JitterAccumulator ==
    /\ C25_SizeAndSpin
    /\ f_pc \in {"loop", "done"} =>
          /\ f_out.accumulator = C25_XorFold(f_out.i)
          /\ \A k \in 1..f_out.i : f_out.spins[k] = 1000 + C25_Low9(C25_XorFold(k - 1))

\* The adapters that return the buffer they filled themselves.
C26_Direct == {"collect_rdseed", "collect_rdrand", "collect_xstore",
               "read_hwrng", "read_urandom", "read_haveged"}

\* C26: an adapter that returns Ok for a request of count bytes returns
\* exactly count bytes, a failing word ends the whole collection with an
\* error, and no call panics; so with sample_size >= 2500 the slice of the
\* first 2500 bytes of an Ok sample is in range.
C26_ExactCount ==
    f_pc = "done" =>
        /\ ~f_out.result.panicked
        /\ f_out.result.ok => Len(f_out.result.buf) = f_in.count
        /\ f_out.result.ok /\ f_in.adapter \in C26_Direct =>
               \A i \in 1..Len(f_out.result.buf) : f_out.result.buf[i] # "zero"
        /\ f_in.adapter \in LoopAdapters /\ f_in.good = 2 /\ loop_count(f_in) > 16 =>
               ~f_out.result.ok
        /\ f_out.sliced => /\ f_out.fips_data # None
                           /\ Len(f_out.fips_data[1]) = 2500

\* RDSEED filled a 2501-byte sample whose last word holds one byte.
C26_Witness ==
    /\ f_pc = "done"
    /\ f_in.adapter = "collect_rdseed"
    /\ f_in.count = FipsBytes + 1
    /\ f_out.result.ok
    /\ f_out.sliced
    /\ f_out.fips_data # None

\* The steps of a daemon tick between the loop condition and the sleep.
C27_TickPcs == {"read_avail", "generate", "inject"}

\* A step that performs the ioctl.
C27_Injection == d_pc = "inject" /\ d_tick'.ioctl_called

\* C27: a flag set during a tick does not cut the tick short (its steps go on
\* to the sleep, the ioctl included), the sleep entered with the flag set
\* returns without sleeping, the loop condition then ends run, and no tick
\* begins once the flag is set; a tick performs the ioctl at most once, so at
\* most one injection follows the setting of the flag.
C27_OneInjectionAfterFlag ==
    [][/\ SHUTDOWN => d_ticks' = d_ticks
       /\ (SHUTDOWN /\ d_tick.ioctl_called) => ~C27_Injection
       /\ (d_pc \in C27_TickPcs /\ d_pc' # d_pc) =>
              d_pc' \in C27_TickPcs \cup {"sleep_check", "panicked"}
       /\ (SHUTDOWN /\ d_pc = "sleep_check" /\ d_pc' # d_pc) =>
              d_pc' = "loop" /\ d_sleep' = d_sleep
       /\ (SHUTDOWN /\ d_pc = "loop" /\ d_pc' # d_pc) =>
              d_pc' = "returned" /\ d_result' = "Ok"]_vars

\* run returned after a tick that performed the ioctl and whose sleep of a
\* whole interval ended without a single step: the flag was set in the tick.
C27_Witness ==
    /\ d_pc = "returned"
    /\ d_result = "Ok"
    /\ SHUTDOWN
    /\ d_tick.ioctl_called
    /\ d_sleep.remaining > 0
    /\ d_sleep.slept = 0

\* C28 as stated: a loop that stopped on the deadline is followed by the
\* 'Completed' notice.
C28_Original ==
    (c_pc = "returned" /\ c_break = "deadline") => c_notice = "Completed"

\* C28: the notice follows the value the flag has when it is loaded after the
\* loop: 'Interrupted' exactly when the flag is set by then.  A loop stopped
\* by the flag is followed by 'Interrupted'; a loop stopped by the deadline is
\* followed by 'Completed' unless a signal arrives before the notice is chosen.
C28_NoticeFollowsFlag ==
    (c_pc = "returned" /\ c_break # "none") =>
        /\ c_notice \in {"Interrupted", "Completed"}
        /\ c_notice = "Interrupted" <=> SHUTDOWN
        /\ c_break = "shutdown" => c_notice = "Interrupted"
        /\ (c_break = "deadline" /\ ~SHUTDOWN) => c_notice = "Completed"

\* The loop stopped on the deadline and the signal came before the notice.
C28_Witness ==
    /\ c_pc = "returned"
    /\ c_break = "deadline"
    /\ c_notice = "Interrupted"
    /\ Attempts(c_stats) > 0

\* The sampling attempts of the k-th surviving source.
C29_Attempts(k) == c_stats[k].total_samples + c_stats[k].errors

\* C29: the loop is a strict round-robin over the surviving sources in their
\* order: after a attempts in all over n sources, source k has been attempted
\* a \div n times and once more if k <= a % n, and the loop stands at source
\* a % n + 1; so two sources differ by at most one attempt and an earlier
\* source never has fewer attempts than a later one.
C29_RoundRobin ==
    c_stats # << >> =>
        LET n == Len(c_sources)
            a == Attempts(c_stats)
        IN  /\ Len(c_stats) = n
            /\ c_i = (a % n) + 1
            /\ \A k \in 1..n :
                  C29_Attempts(k) = (a \div n) + (IF k <= a % n THEN 1 ELSE 0)
            /\ \A j, k \in 1..n :
                  j < k => C29_Attempts(j) - C29_Attempts(k) \in {0, 1}

\* Two sources have each been attempted once, one of them with an error, and
\* the loop is back at the first.
C29_Witness ==
    /\ Len(c_sources) = 2
    /\ c_pc = "loop_check"
    /\ C29_Attempts(1) = 1
    /\ C29_Attempts(2) = 1
    /\ c_stats[2].errors = 1
    /\ c_i = 1

\* The four per-test pass counters of an accumulator.
C30_Tests(stat) ==
    <<stat.fips_monobit_pass, stat.fips_poker_pass, stat.fips_runs_pass,
      stat.fips_long_runs_pass>>

\* What holds of every accumulator between iterations.
C30_Bounds ==
    \A k \in 1..Len(c_stats) :
        /\ \A t \in 1..4 : /\ c_stats[k].fips_all_pass <= C30_Tests(c_stats[k])[t]
                           /\ C30_Tests(c_stats[k])[t] <= c_stats[k].total_samples
        /\ c_stats[k].total_bytes = c_stats[k].total_samples * c_args.sample_size

\* What one iteration does: it is one attempt of the source the loop stands
\* at, counted in total_samples or in errors and never both, the other
\* accumulators are left alone, and fips_all_pass goes up by one exactly when
\* all four test counters do.
C30_Iteration ==
    (c_pc = "collect" /\ c_pc' = "loop_check") =>
        /\ \A k \in 1..Len(c_stats) : k # c_i => c_stats'[k] = c_stats[k]
        /\ (c_stats'[c_i].total_samples - c_stats[c_i].total_samples)
              + (c_stats'[c_i].errors - c_stats[c_i].errors) = 1
        /\ c_stats'[c_i].total_samples >= c_stats[c_i].total_samples
        /\ c_stats'[c_i].errors >= c_stats[c_i].errors
        /\ c_stats'[c_i].fips_all_pass - c_stats[c_i].fips_all_pass \in {0, 1}
        /\ c_stats'[c_i].fips_all_pass = c_stats[c_i].fips_all_pass + 1
              <=> \A t \in 1..4 :
                     C30_Tests(c_stats'[c_i])[t] = C30_Tests(c_stats[c_i])[t] + 1

\* C30: after any sequence of iterations every accumulator has
\* fips_all_pass <= each per-test counter <= total_samples and
\* total_bytes = total_samples * sample_size; each iteration adds one attempt
\* to total_samples + errors of its source alone; and fips_all_pass is
\* incremented exactly when all four per-test counters are.
C30_Accumulators == [](C30_Bounds) /\ [][C30_Iteration]_vars

\* A source has a sample that passed the monobit test but not all four, and
\* another attempt that failed.
C30_Witness ==
    /\ c_pc = "loop_check"
    /\ do_fips
    /\ \E k \in 1..Len(c_stats) :
          /\ c_stats[k].total_samples = 1
          /\ c_stats[k].errors = 1
          /\ c_stats[k].fips_monobit_pass = 1
          /\ c_stats[k].fips_all_pass = 0
          /\ c_stats[k].total_bytes = c_args.sample_size

====
